---------------------------- MODULE Spec2Model ----------------------------
(***************************************************************************)
(* A model of the Gmail / Calendar assistant backend:                      *)
(*   - agent.py      handle_chat (the turn loop), _build_context           *)
(*   - action.py     parse_function_call                                   *)
(*   - memory.py     MemoryManager                                         *)
(*   - rag.py        index_document                                        *)
(*   - mcp_tools.py  the ten Tool Server operations                        *)
(*   - calendar_client.py  check_free_slots                                *)
(*   - server.py     the two HTTP endpoints                                *)
(*                                                                         *)
(* Text is modelled as a sequence of atoms: an atom is one character       *)
(* (" ", ":", "|", "[", "]", a digit ...) or one whole word (a tool name,  *)
(* the plan prefixes).  Splitting, trimming and number parsing work on     *)
(* these sequences the way the Python string methods work on characters.   *)
(***************************************************************************)
EXTENDS Integers, Sequences, FiniteSets, TLC

VARIABLES
    \* ---- agent.py: module globals (shared by every turn) ----
    iteration,            \* agent.py:21
    last_response,        \* agent.py:20
    iteration_response,   \* agent.py:22
    \* ---- agent.py: handle_chat, one slot per turn ----
    pc,                   \* where the coroutine of the turn is suspended
    tool_results,         \* agent.py:301, the per-turn dict (insertion ordered)
    current_query,        \* agent.py:305-309
    pending,              \* the tool call awaited at agent.py:397
    ret,                  \* the value handle_chat returns (or the escape of an exception)
    hist,                 \* per-turn history: cycles, calls, how the turn ended
    \* ---- server.py ----
    http,                 \* the last response of each endpoint
    \* ---- pure functions under check: input and output ----
    fin, fout,
    \* ---- memory.py: MemoryManager ----
    mem,
    \* ---- rag.py: the persisted index and the calls in flight ----
    disk, rag

vars == <<iteration, last_response, iteration_response, pc, tool_results,
          current_query, pending, ret, hist, http, fin, fout, mem, disk, rag>>

agentVars == <<iteration, last_response, iteration_response, pc, tool_results,
               current_query, pending, ret, hist>>

-----------------------------------------------------------------------------
(* Bounds of the model *)

NumTurns == 2

Turns == 1..NumTurns

\* the processes that may call index_document
NumCallers == 2

\* the cycles and calls of one turn that the history of the turn counts
MaxCycles == 6

Callers == 1..NumCallers

-----------------------------------------------------------------------------
(* Text helpers: Python str methods on atom sequences *)

WS == {" ", "\n"}

RECURSIVE LStrip(_)
LStrip(s) == IF s # <<>> /\ Head(s) \in WS THEN LStrip(Tail(s)) ELSE s

RECURSIVE RStrip(_)
RStrip(s) ==
    IF s # <<>> /\ s[Len(s)] \in WS THEN RStrip(SubSeq(s, 1, Len(s) - 1)) ELSE s

\* str.strip()
Strip(s) == RStrip(LStrip(s))

\* str.startswith(p)
StartsWith(s, p) == Len(s) >= Len(p) /\ SubSeq(s, 1, Len(p)) = p

\* str.endswith(p)
EndsWith(s, p) == Len(s) >= Len(p) /\ SubSeq(s, Len(s) - Len(p) + 1, Len(s)) = p

\* position of the first atom equal to c, 0 when there is none
RECURSIVE FindFrom(_, _, _)
FindFrom(s, c, i) ==
    IF i > Len(s) THEN 0 ELSE IF s[i] = c THEN i ELSE FindFrom(s, c, i + 1)

Find(s, c) == FindFrom(s, c, 1)

\* str.split(c): always at least one part
RECURSIVE Split(_, _)
Split(s, c) ==
    LET i == Find(s, c)
    IN  IF i = 0 THEN <<s>>
        ELSE <<SubSeq(s, 1, i - 1)>> \o Split(SubSeq(s, i + 1, Len(s)), c)

\* str.split(c, 1)
SplitOnce(s, c) ==
    LET i == Find(s, c)
    IN  IF i = 0 THEN <<s>>
        ELSE <<SubSeq(s, 1, i - 1), SubSeq(s, i + 1, Len(s))>>

\* [f(x) for x in s]
MapStrip(parts) == [i \in 1..Len(parts) |-> Strip(parts[i])]

FUNCTION_CALL_PREFIX == <<"FUNCTION_CALL", ":">>

FINAL_ANSWER_PREFIX == <<"FINAL_ANSWER", ":">>


-----------------------------------------------------------------------------
(* mcp_tools.py: the catalogue the Tool Server advertises, in declaration   *)
(* order.  A descriptor is [name, params], params in schema order.          *)

StrParam(n) == [name |-> n, type |-> "string"]

ServerCatalogue ==
    << [name |-> "get_unread_emails_today", params |-> <<>>],
       [name |-> "get_emails_by_date_range",
        params |-> <<StrParam("start_date"), StrParam("end_date")>>],
       [name |-> "search_emails", params |-> <<StrParam("query")>>],
       [name |-> "get_email_thread", params |-> <<StrParam("thread_id")>>],
       [name |-> "get_email_attachments", params |-> <<StrParam("message_id")>>],
       [name |-> "send_email",
        params |-> <<StrParam("to"), StrParam("subject"), StrParam("body")>>],
       [name |-> "get_todays_events", params |-> <<>>],
       [name |-> "get_events_for_date", params |-> <<StrParam("date")>>],
       [name |-> "check_free_slots", params |-> <<StrParam("date")>>],
       [name |-> "create_event",
        params |-> <<StrParam("title"), StrParam("date"), StrParam("start_time"),
                     StrParam("end_time"), StrParam("attendees")>>] >>

\* [t.name for t in tools]
ToolNamesOf(tools) == [i \in 1..Len(tools) |-> tools[i].name]

\* the text an f-string makes of a list of str: ['a', 'b']
RECURSIVE ReprItems(_)
ReprItems(names) ==
    IF names = <<>> THEN <<>>
    ELSE <<"'", Head(names), "'">>
         \o (IF Len(names) > 1 THEN <<", ">> ELSE <<>>) \o ReprItems(Tail(names))

ListRepr(names) == <<"[">> \o ReprItems(names) \o <<"]">>

\* next((t for t in tools if t.name == func_name), None): index of the first
\* descriptor whose name is the text func_name, 0 for None
RECURSIVE FindToolFrom(_, _, _)
FindToolFrom(tools, func_name, i) ==
    IF i > Len(tools) THEN 0
    ELSE IF <<tools[i].name>> = func_name THEN i
    ELSE FindToolFrom(tools, func_name, i + 1)

FindTool(tools, func_name) == FindToolFrom(tools, func_name, 1)

-----------------------------------------------------------------------------
(* Python int() and float() on the atoms the model uses *)

Digits == {"0", "2", "3", "5"}

DigitVal(c) == CASE c = "0" -> 0 [] c = "2" -> 2 [] c = "3" -> 3 [] c = "5" -> 5

AllDigits(s) == s # <<>> /\ \A i \in 1..Len(s) : s[i] \in Digits

RECURSIVE DigitsVal(_)
DigitsVal(s) ==
    IF s = <<>> THEN 0
    ELSE 10 * DigitsVal(SubSeq(s, 1, Len(s) - 1)) + DigitVal(s[Len(s)])

Pow10(n) == CASE n = 0 -> 1 [] n = 1 -> 10 [] n = 2 -> 100 [] n = 3 -> 1000 [] OTHER -> 10000

Unsigned(s) == IF s # <<>> /\ Head(s) = "-" THEN Tail(s) ELSE s

Signum(s) == IF s # <<>> /\ Head(s) = "-" THEN -1 ELSE 1

\* int(value): the surrounding whitespace is ignored, an optional sign, digits
IntOk(v) == AllDigits(Unsigned(Strip(v)))

IntOf(v) == Signum(Strip(v)) * DigitsVal(Unsigned(Strip(v)))

\* float(value): digits with at most one ".", at least one digit
FloatOk(v) ==
    LET u == Unsigned(Strip(v))
        p == Split(u, ".")
    IN  /\ Len(p) <= 2
        /\ \A i \in 1..Len(p) : p[i] = <<>> \/ AllDigits(p[i])
        /\ \E i \in 1..Len(p) : p[i] # <<>>

\* the fraction digits without their trailing zeros
RECURSIVE DropZeros(_)
DropZeros(s) ==
    IF s # <<>> /\ s[Len(s)] = "0" THEN DropZeros(SubSeq(s, 1, Len(s) - 1)) ELSE s

\* float(value) as the decimal m * 10^-e, e minimal: 2.5 is [m |-> 25, e |-> 1]
FloatOf(v) ==
    LET u == Unsigned(Strip(v))
        p == Split(u, ".")
        frac == IF Len(p) = 2 THEN DropZeros(p[2]) ELSE <<>>
    IN  [m |-> Signum(Strip(v)) * (DigitsVal(p[1]) * Pow10(Len(frac)) + DigitsVal(frac)),
         e |-> Len(frac)]

\* typed argument values
IntArg(i) == [t |-> "int", i |-> i]

FloatArg(f) == [t |-> "float", f |-> f]

StrArg(s) == [t |-> "str", s |-> s]

ListArg(l) == [t |-> "list", l |-> l]

InjectedArg(key, res) == [t |-> "injected", key |-> key, from |-> res]

NoneArg == [t |-> "None"]

\* dict[k] = v on a map with a set domain
Put(m, k, v) == [x \in DOMAIN m \cup {k} |-> IF x = k THEN v ELSE m[x]]

EmptyMap == [x \in {} |-> NoneArg]

-----------------------------------------------------------------------------
(* Tool results as handle_chat captures them (agent.py:401-413): the list   *)
(* of the content texts.  kind "dict": one text, the JSON of a map (body);  *)
(* kind "text": one text that is not JSON; kind "empty": no content item.   *)

DictResult(body, src) == [kind |-> "dict", body |-> body, src |-> src]

TextResult(src) == [kind |-> "text", body |-> EmptyMap, src |-> src]

EmptyResult(src) == [kind |-> "empty", body |-> EmptyMap, src |-> src]

NoneResult == [kind |-> "None"]

\* a Python exception: its class and its message text
Raise(type, msg) == [type |-> type, msg |-> msg]

\* json.loads(raw[0]) if isinstance(raw, list) else json.loads(raw)
\* (action.py:63-66, agent.py:86-89 and 379-382)
JsonLoad(raw) ==
    CASE raw.kind = "dict"  -> [ok |-> TRUE, parsed |-> raw.body]
      [] raw.kind = "text"  -> [ok |-> FALSE,
                                err |-> Raise("JSONDecodeError", <<"Expecting value">>)]
      [] raw.kind = "empty" -> [ok |-> FALSE,
                                err |-> Raise("IndexError", <<"list index out of range">>)]

\* an assignment that adds an entry whether or not the key is there
DictSetAppend(d, k, v) == Append(d, [tool |-> k, result |-> v])

\* dict.items() of the per-turn results: a sequence of [tool, result], in
\* insertion order; d[k] = v keeps the place of a key that is already there
DictSet(d, k, v) ==
    IF \E i \in 1..Len(d) : d[i].tool = k
    THEN [i \in 1..Len(d) |-> IF d[i].tool = k THEN [tool |-> k, result |-> v] ELSE d[i]]
    ELSE Append(d, [tool |-> k, result |-> v])

DictHas(d, k) == \E i \in 1..Len(d) : d[i].tool = k

DictGet(d, k) == d[CHOOSE i \in 1..Len(d) : d[i].tool = k].result

\* the scan of the earlier results for a map holding the parameter's name
\* (action.py:61-69; agent.py:376-385 parses only until the first match)
RECURSIVE InjectFrom(_, _, _)
InjectFrom(param_name, tr, i) ==
    IF i > Len(tr) THEN [st |-> "none"]
    ELSE LET j == JsonLoad(tr[i].result)
         IN  IF ~j.ok THEN [st |-> "raise", err |-> j.err]
             ELSE IF param_name \in DOMAIN j.parsed
                  THEN [st |-> "found", v |-> InjectedArg(param_name, tr[i].result)]
                  ELSE InjectFrom(param_name, tr, i + 1)

\* str.strip("[]")
RECURSIVE StripBrackets(_)
StripBrackets(s) ==
    IF s # <<>> /\ Head(s) \in {"[", "]"} THEN StripBrackets(Tail(s))
    ELSE IF s # <<>> /\ s[Len(s)] \in {"[", "]"}
         THEN StripBrackets(SubSeq(s, 1, Len(s) - 1))
         ELSE s

\* json.loads(value) of a positional value: over the atoms of the model the
\* JSON texts are the integers and the lists "[" integer {"," integer} "]"
JsonIntOk(v) == AllDigits(Unsigned(v)) /\ (Len(Unsigned(v)) = 1 \/ Head(Unsigned(v)) # "0")

JsonValueOk(value) ==
    LET v == Strip(value)
    IN  \/ JsonIntOk(v)
        \/ /\ Len(v) >= 2 /\ Head(v) = "[" /\ v[Len(v)] = "]"
           /\ LET inner == SubSeq(v, 2, Len(v) - 1)
                  items == MapStrip(Split(inner, ","))
              IN  Strip(inner) = <<>> \/ \A i \in 1..Len(items) : JsonIntOk(items[i])

JsonValueOf(value) ==
    LET v == Strip(value)
    IN  IF JsonIntOk(v) THEN IntArg(IntOf(v))
        ELSE LET inner == SubSeq(v, 2, Len(v) - 1)
                 items == MapStrip(Split(inner, ","))
             IN  IF Strip(inner) = <<>> THEN ListArg(<<>>)
                 ELSE ListArg([i \in 1..Len(items) |-> IntArg(IntOf(items[i]))])

\* value.strip("[]").split(",")
BracketSplit(value) ==
    LET parts == Split(StripBrackets(value), ",")
    IN  ListArg([i \in 1..Len(parts) |-> StrArg(parts[i])])

-----------------------------------------------------------------------------
(* action.py: parse_function_call *)

\* a conversion that keeps every value as text
ConvertValueAsText(param_type, value) == [ok |-> TRUE, v |-> StrArg(value)]

\* the conversion of one consumed positional value (action.py:74-89)
ConvertValue(param_type, value) ==
    CASE param_type = "integer" ->
            IF IntOk(value) THEN [ok |-> TRUE, v |-> IntArg(IntOf(value))]
            ELSE [ok |-> FALSE,
                  err |-> Raise("ValueError", <<"invalid literal for int(): ">> \o value)]
      [] param_type = "number" ->
            IF FloatOk(value) THEN [ok |-> TRUE, v |-> FloatArg(FloatOf(value))]
            ELSE [ok |-> FALSE,
                  err |-> Raise("ValueError", <<"could not convert string to float: ">> \o value)]
      [] param_type \in {"array", "object"} ->
            IF JsonValueOk(value) THEN [ok |-> TRUE, v |-> JsonValueOf(value)]
            ELSE [ok |-> TRUE, v |-> BracketSplit(value)]
      [] OTHER -> [ok |-> TRUE, v |-> StrArg(value)]

\* a loop that takes every parameter without a value for a missing one
RECURSIVE BindParamsRequired(_, _, _, _, _)
BindParamsRequired(props, i, params, arguments, tr) ==
    IF i > Len(props) THEN [ok |-> TRUE, arguments |-> arguments]
    ELSE IF params = <<>>
         THEN [ok |-> FALSE, err |-> Raise("ValueError", <<"Not enough parameters provided">>)]
         ELSE LET c == ConvertValue(props[i].type, Head(params))
              IN  IF c.ok
                  THEN BindParamsRequired(props, i + 1, Tail(params),
                                          Put(arguments, props[i].name, c.v), tr)
                  ELSE [ok |-> FALSE, err |-> c.err]

\* the loop over schema_properties.items() (action.py:55-89)
RECURSIVE BindParams(_, _, _, _, _)
BindParams(props, i, params, arguments, tr) ==
    IF i > Len(props) THEN [ok |-> TRUE, arguments |-> arguments]
    ELSE
      LET param_name == props[i].name
          param_type == props[i].type
      IN  IF params = <<>> /\ param_type \in {"array", "object"}
          THEN LET inj == IF tr # <<>> THEN InjectFrom(param_name, tr, 1)
                          ELSE [st |-> "none"]
               IN  CASE inj.st = "raise" -> [ok |-> FALSE, err |-> inj.err]
                     [] inj.st = "found" ->
                          BindParams(props, i + 1, params,
                                     Put(arguments, param_name, inj.v), tr)
                     [] OTHER -> BindParams(props, i + 1, params, arguments, tr)
          ELSE IF params = <<>>
          THEN BindParams(props, i + 1, params, arguments, tr)
          ELSE LET c == ConvertValue(param_type, Head(params))
               IN  IF c.ok
                   THEN BindParams(props, i + 1, Tail(params),
                                   Put(arguments, param_name, c.v), tr)
                   ELSE [ok |-> FALSE, err |-> c.err]

\* an error that names only the tool asked for
UnknownToolNoList(func_name, tools) ==
    Raise("ValueError", <<"Unknown tool: ">> \o func_name)

\* f"Unknown tool: {func_name}. Available: {available}" (action.py:49-50)
UnknownToolError(func_name, tools) ==
    Raise("ValueError",
          <<"Unknown tool: ">> \o func_name \o <<". Available: ">>
          \o ListRepr(ToolNamesOf(tools)))

\* parse_function_call(response, tools, tool_results): [ok, func_name, arguments]
\* or [ok |-> FALSE, err]
parse_function_call(response, tools, tr) ==
    IF ~StartsWith(response, FUNCTION_CALL_PREFIX)
    THEN [ok |-> FALSE, err |-> Raise("ValueError", <<"Not a valid FUNCTION_CALL">>)]
    ELSE
      LET function_info == SplitOnce(response, ":")[2]
          parts == MapStrip(Split(function_info, "|"))
          func_name == parts[1]
          params == Tail(parts)
          k == FindTool(tools, func_name)
      IN  IF k = 0 THEN [ok |-> FALSE, err |-> UnknownToolError(func_name, tools)]
          ELSE LET b == BindParams(tools[k].params, 1, params, EmptyMap, tr)
               IN  IF b.ok
                   THEN [ok |-> TRUE, func_name |-> tools[k].name,
                         arguments |-> b.arguments]
                   ELSE b

-----------------------------------------------------------------------------
(* agent.py: the parsing handle_chat does itself (agent.py:331-392) *)

\* the conversion of one parameter (agent.py:369-392); value is NoneArg when
\* an array/object parameter found no positional value left
AgentConvert(param_name, param_type, value, tr) ==
    CASE param_type = "integer" ->
            IF IntOk(value.s) THEN [ok |-> TRUE, v |-> IntArg(IntOf(value.s))]
            ELSE [ok |-> FALSE,
                  err |-> Raise("ValueError", <<"invalid literal for int(): ">> \o value.s)]
      [] param_type = "number" ->
            IF FloatOk(value.s) THEN [ok |-> TRUE, v |-> FloatArg(FloatOf(value.s))]
            ELSE [ok |-> FALSE,
                  err |-> Raise("ValueError",
                                <<"could not convert string to float: ">> \o value.s)]
      [] param_type \in {"array", "object"} ->
            LET inj == InjectFrom(param_name, tr, 1)
            IN  CASE inj.st = "raise" -> [ok |-> FALSE, err |-> inj.err]
                  [] inj.st = "found" -> [ok |-> TRUE, v |-> inj.v]
                  [] OTHER -> IF value.t = "str"
                              THEN [ok |-> TRUE, v |-> BracketSplit(value.s)]
                              ELSE [ok |-> TRUE, v |-> value]
      [] OTHER -> [ok |-> TRUE, v |-> StrArg(value.s)]

\* the loop over schema_properties.items() (agent.py:356-392)
RECURSIVE AgentBind(_, _, _, _, _, _)
AgentBind(func_name, props, i, params, arguments, tr) ==
    IF i > Len(props) THEN [ok |-> TRUE, arguments |-> arguments]
    ELSE
      LET param_name == props[i].name
          param_type == props[i].type
      IN  IF params = <<>> /\ param_type \notin {"array", "object"}
          THEN [ok |-> FALSE,
                err |-> Raise("ValueError",
                              <<"Not enough parameters provided for ">> \o func_name)]
          ELSE LET value == IF params = <<>> THEN NoneArg ELSE StrArg(Head(params))
                   rest == IF params = <<>> THEN params ELSE Tail(params)
                   c == AgentConvert(param_name, param_type, value, tr)
               IN  IF c.ok
                   THEN AgentBind(func_name, props, i + 1, rest,
                                  Put(arguments, param_name, c.v), tr)
                   ELSE [ok |-> FALSE, err |-> c.err]

\* raise ValueError(f"Unknown tool: {func_name}") (agent.py:343-346)
AgentUnknownTool(func_name, tools) ==
    Raise("ValueError", <<"Unknown tool: ">> \o func_name)

\* agent.py:332-392 on a response_text that starts with FUNCTION_CALL:
AgentParse(response_text, tools, tr) ==
    LET function_info == SplitOnce(response_text, ":")[2]
        parts == MapStrip(Split(function_info, "|"))
        func_name == parts[1]
        params == Tail(parts)
        k == FindTool(tools, func_name)
    IN  IF k = 0 THEN [ok |-> FALSE, err |-> AgentUnknownTool(func_name, tools)]
        ELSE LET b == AgentBind(func_name, tools[k].params, 1, params, EmptyMap, tr)
             IN  IF b.ok
                 THEN [ok |-> TRUE, func_name |-> tools[k].name,
                       arguments |-> b.arguments]
                 ELSE b

-----------------------------------------------------------------------------
(* agent.py: _build_context *)

\* the dict literal at agent.py:62-73, in its iteration order
TOOL_TO_CONTEXT ==
    << [tool |-> "get_todays_events",        type |-> "calendar_events"],
       [tool |-> "get_events_for_date",      type |-> "calendar_events"],
       [tool |-> "check_free_slots",         type |-> "free_slots"],
       [tool |-> "create_event",             type |-> "event_created"],
       [tool |-> "get_unread_emails_today",  type |-> "email_list"],
       [tool |-> "get_emails_by_date_range", type |-> "email_list"],
       [tool |-> "search_emails",            type |-> "email_list"],
       [tool |-> "get_email_thread",         type |-> "email_thread"],
       [tool |-> "get_email_attachments",    type |-> "email_attachments"],
       [tool |-> "send_email",               type |-> "email_sent"] >>

NoContext == [type |-> "None"]

\* a loop that keeps the first name of the table it finds in the map
RECURSIVE FirstToolFrom(_, _, _)
FirstToolFrom(tr, i, last) ==
    IF i > Len(TOOL_TO_CONTEXT) THEN last
    ELSE IF DictHas(tr, TOOL_TO_CONTEXT[i].tool) /\ last = 0
         THEN FirstToolFrom(tr, i + 1, i)
         ELSE FirstToolFrom(tr, i + 1, last)

\* the loop at agent.py:76-79: i walks the table, last is the index kept so
\* far (0 for None)
RECURSIVE LastToolFrom(_, _, _)
LastToolFrom(tr, i, last) ==
    IF i > Len(TOOL_TO_CONTEXT) THEN last
    ELSE IF DictHas(tr, TOOL_TO_CONTEXT[i].tool)
         THEN LastToolFrom(tr, i + 1, i)
         ELSE LastToolFrom(tr, i + 1, last)

LastTool(tr) == LastToolFrom(tr, 1, 0)

\* parsed.get(key, [])
GetOrEmpty(parsed, key) == IF key \in DOMAIN parsed THEN parsed[key] ELSE <<>>

\* agent.py:96-111
ContextData(context_type, parsed) ==
    CASE context_type = "calendar_events" ->
            [proj |-> "events", list |-> GetOrEmpty(parsed, "events")]
      [] context_type = "email_list" ->
            [proj |-> "emails", list |-> GetOrEmpty(parsed, "emails")]
      [] OTHER -> [proj |-> "whole", map |-> parsed]

\* _build_context(tool_results)
BuildContext(tr) ==
    LET last == LastTool(tr)
    IN  IF last = 0 THEN NoContext
        ELSE LET raw == DictGet(tr, TOOL_TO_CONTEXT[last].tool)
                 j == JsonLoad(raw)
             IN  IF ~j.ok THEN NoContext
                 ELSE [type |-> TOOL_TO_CONTEXT[last].type,
                       data |-> ContextData(TOOL_TO_CONTEXT[last].type, j.parsed)]

-----------------------------------------------------------------------------
(* mcp_tools.py: the ten operations.  A delegate call ends in one of three  *)
(* ways: [kind |-> "ok", value], [kind |-> "FileNotFoundError", msg] (the   *)
(* credential file is missing) or [kind |-> "Exception", msg].              *)

GmailTools ==
    {"get_unread_emails_today", "get_emails_by_date_range", "search_emails",
     "get_email_thread", "get_email_attachments", "send_email"}

CalendarTools ==
    {"get_todays_events", "get_events_for_date", "check_free_slots", "create_event"}

\* f"Gmail API error: {str(e)}"
GmailError(msg) == <<"Gmail API error: ">> \o msg

\* f"Calendar API error: {str(e)}"
CalendarError(msg) == <<"Calendar API error: ">> \o msg

\* a dict literal with one, two or four keys
Map1(k1, v1) == [x \in {k1} |-> v1]

Map2(k1, v1, k2, v2) == [x \in {k1, k2} |-> IF x = k1 THEN v1 ELSE v2]

Map3(k1, v1, k2, v2, k3, v3) ==
    [x \in {k1, k2, k3} |-> IF x = k1 THEN v1 ELSE IF x = k2 THEN v2 ELSE v3]

Map4(k1, v1, k2, v2, k3, v3, k4, v4) ==
    [x \in {k1, k2, k3, k4} |->
        IF x = k1 THEN v1 ELSE IF x = k2 THEN v2 ELSE IF x = k3 THEN v3 ELSE v4]

\* every failure told with the provider's prefix
ErrorTextPrefixed(provider_error, o) == provider_error

\* the message each operation puts under "error" (the two except clauses)
ErrorText(provider_error, o) ==
    IF o.kind = "FileNotFoundError" THEN o.msg ELSE provider_error

\* mcp_tools.py:31-50
tool_get_unread_emails_today(a, o) ==
    IF o.kind = "ok" THEN Map1("emails", o.value)
    ELSE Map2("error", ErrorText(GmailError(o.msg), o), "emails", <<>>)

\* mcp_tools.py:53-78
tool_get_emails_by_date_range(a, o) ==
    IF o.kind = "ok"
    THEN Map3("emails", o.value, "start_date", a["start_date"], "end_date", a["end_date"])
    ELSE Map2("error", ErrorText(GmailError(o.msg), o), "emails", <<>>)

\* mcp_tools.py:81-110
tool_search_emails(a, o) ==
    IF o.kind = "ok" THEN Map2("emails", o.value, "query", a["query"])
    ELSE Map2("error", ErrorText(GmailError(o.msg), o), "emails", <<>>)

\* mcp_tools.py:113-139
tool_get_email_thread(a, o) ==
    IF o.kind = "ok" THEN o.value
    ELSE Map2("error", ErrorText(GmailError(o.msg), o), "messages", <<>>)

\* mcp_tools.py:142-169
tool_get_email_attachments(a, o) ==
    IF o.kind = "ok" THEN o.value
    ELSE Map2("error", ErrorText(GmailError(o.msg), o), "attachments", <<>>)

\* mcp_tools.py:172-197
tool_send_email(a, o) ==
    IF o.kind = "ok" THEN o.value
    ELSE Map2("error", ErrorText(GmailError(o.msg), o), "status", <<"failed">>)

\* mcp_tools.py:202-221
tool_get_todays_events(a, o) ==
    IF o.kind = "ok" THEN Map1("events", o.value)
    ELSE Map2("error", ErrorText(CalendarError(o.msg), o), "events", <<>>)

\* mcp_tools.py:224-241
tool_get_events_for_date(a, o) ==
    IF o.kind = "ok" THEN Map1("events", o.value)
    ELSE Map2("error", ErrorText(CalendarError(o.msg), o), "events", <<>>)

\* mcp_tools.py:244-266
tool_check_free_slots(a, o) ==
    IF o.kind = "ok" THEN o.value
    ELSE Map4("error", ErrorText(CalendarError(o.msg), o), "date", a["date"],
              "busy", <<>>, "free", <<>>)

\* mcp_tools.py:269-300
tool_create_event(a, o) ==
    IF o.kind = "ok" THEN o.value
    ELSE Map2("error", ErrorText(CalendarError(o.msg), o), "status", <<"failed">>)

\* the dispatch of a call by name
ToolOp(name, a, o) ==
    CASE name = "get_unread_emails_today"  -> tool_get_unread_emails_today(a, o)
      [] name = "get_emails_by_date_range" -> tool_get_emails_by_date_range(a, o)
      [] name = "search_emails"            -> tool_search_emails(a, o)
      [] name = "get_email_thread"         -> tool_get_email_thread(a, o)
      [] name = "get_email_attachments"    -> tool_get_email_attachments(a, o)
      [] name = "send_email"               -> tool_send_email(a, o)
      [] name = "get_todays_events"        -> tool_get_todays_events(a, o)
      [] name = "get_events_for_date"      -> tool_get_events_for_date(a, o)
      [] name = "check_free_slots"         -> tool_check_free_slots(a, o)
      [] name = "create_event"             -> tool_create_event(a, o)

-----------------------------------------------------------------------------
(* What the outside world can answer *)

\* a dict literal given as <<key, value>> pairs
MapOf(pairs) ==
    [x \in {pairs[i][1] : i \in 1..Len(pairs)} |->
        pairs[CHOOSE i \in 1..Len(pairs) : pairs[i][1] = x][2]]

\* the argument texts of a call: the str values of the bound arguments
ArgTexts(arguments) == [x \in DOMAIN arguments |-> arguments[x].s]

\* what a delegate returns when the provider answers (gmail_client.py,
\* calendar_client.py: the return statements), one value per operation
DelegateValue(name, a) ==
    CASE name \in {"get_unread_emails_today", "get_emails_by_date_range",
                   "search_emails"} -> <<"mail">>
      [] name \in {"get_todays_events", "get_events_for_date"} -> <<"event">>
      [] name = "get_email_thread" ->
            MapOf(<< <<"thread_id", a["thread_id"]>>, <<"subject", <<"Re">>>>,
                     <<"message_count", <<"1">>>>, <<"messages", <<"msg">>>> >>)
      [] name = "get_email_attachments" ->
            MapOf(<< <<"message_id", a["message_id"]>>, <<"subject", <<"Re">>>>,
                     <<"from", <<"x">>>>, <<"attachment_count", <<"0">>>>,
                     <<"attachments", <<>>>> >>)
      [] name = "send_email" ->
            MapOf(<< <<"status", <<"sent">>>>, <<"to", a["to"]>>,
                     <<"subject", a["subject"]>>, <<"message_id", <<"id">>>> >>)
      [] name = "check_free_slots" ->
            MapOf(<< <<"date", a["date"]>>, <<"busy", <<>>>>, <<"free", <<"slot">>>> >>)
      [] name = "create_event" ->
            MapOf(<< <<"status", <<"created">>>>, <<"summary", a["title"]>>,
                     <<"start", a["start_time"]>>, <<"end", a["end_time"]>>,
                     <<"date", a["date"]>>, <<"link", <<"url">>>>,
                     <<"attendees", <<>>>> >>)

\* get_gmail_service / get_calendar_service: token.json is missing
MissingToken == [kind |-> "FileNotFoundError", msg |-> <<"token.json not found">>]

\* any other failure of the provider call
ProviderDown == [kind |-> "Exception", msg |-> <<"HttpError 500">>]

DelegateOutcomes(name, a) ==
    {[kind |-> "ok", value |-> DelegateValue(name, a)], MissingToken, ProviderDown}

-----------------------------------------------------------------------------
(* agent.py: handle_chat.  One action per stretch of code between two       *)
(* awaits; the awaits are the connection to the Tool Server (127-135), the  *)
(* model call (315), the tool call (397) and the exits of the two           *)
(* "async with" blocks on the way out.                                      *)

max_iterations == 5

\* agent.py:450
EXHAUSTED_REPLY == <<"Sorry, I couldn't complete your request. Please try again.">>

\* what the model may answer (response.text), as atom texts
FcLine(name, values) ==
    <<"FUNCTION_CALL", ":", " ", name>> \o values

FaLine(text) == <<"FINAL_ANSWER", ":">> \o text

FinalTexts ==
    { <<" ", "[", "Hello", "]">>,              \* FINAL_ANSWER: [Hello]
      <<" ", "Hello">>,                        \* no brackets
      <<" ", "[", " ", "Hello", " ", "]", " ">>,
      <<" ", "[", "Hello">>,                   \* only an opening bracket
      <<" ", "[">>,                            \* the one character [
      <<" ", "[", "[", "Hello", "]", "]">>,    \* two layers
      <<>> }

LLMResponses ==
    { FcLine("search_emails", <<"|", "f", ":", "x">>),
      FcLine("search_emails", <<>>),
      FcLine("no_such_tool", <<"|", "x">>),
      <<"I", " ", "will", " ", "check">>,
      <<"ok", "\n">> \o FcLine("get_todays_events", <<>>) }
    \cup { FaLine(txt) : txt \in FinalTexts }

\* agent.py:320-324: the first line that starts with FUNCTION_CALL:, else
\* the whole text
RECURSIVE FirstCallLine(_, _, _)
FirstCallLine(lines, i, whole) ==
    IF i > Len(lines) THEN whole
    ELSE IF StartsWith(Strip(lines[i]), FUNCTION_CALL_PREFIX) THEN Strip(lines[i])
    ELSE FirstCallLine(lines, i + 1, whole)

\* agent.py:316-324
ResponseText(text) == FirstCallLine(Split(Strip(text), "\n"), 1, Strip(text))

\* the answer with every layer of brackets removed
RECURSIVE Unwrap(_)
Unwrap(answer) ==
    IF StartsWith(answer, <<"[">>) /\ EndsWith(answer, <<"]">>)
    THEN Unwrap(Strip(SubSeq(answer, 2, Len(answer) - 1)))
    ELSE answer

FinalAnswerUnwrapped(response_text) ==
    Unwrap(Strip(SubSeq(response_text, Len(FINAL_ANSWER_PREFIX) + 1, Len(response_text))))

\* agent.py:439-441
FinalAnswer(response_text) ==
    LET answer == Strip(SubSeq(response_text, Len(FINAL_ANSWER_PREFIX) + 1,
                               Len(response_text)))
    IN  IF StartsWith(answer, <<"[">>) /\ EndsWith(answer, <<"]">>)
        THEN Strip(SubSeq(answer, 2, Len(answer) - 1))
        ELSE answer

NoReturn == [none |-> TRUE]

\* a return statement of handle_chat
Return(reply, context) == [raised |-> FALSE, reply |-> reply, context |-> context]

\* an exception that leaves handle_chat
Escape(err) == [raised |-> TRUE, err |-> err]

\* handle_chat without its handler: the exception leaves the function
HandleChatReraise(err) == Escape(err)

\* agent.py:452-456: except Exception as e
HandleChatExcept(err) == Return(<<"Something went wrong: ">> \o err.msg, NoContext)

NoQuery == [bound |-> FALSE]

NoPending == [none |-> TRUE]

\* no response has been sent for the request being handled
NoResponse == [none |-> TRUE]

\* latest: for each tool the result of its most recent call that returned
InitHist ==
    [cycles |-> 0, calls |-> 0, how |-> "", allFC |-> TRUE, plan |-> <<>>,
     latest |-> [x \in {} |-> NoneResult]]

\* the counters of hist stop at MaxCycles
Bump(n) == IF n < MaxCycles THEN n + 1 ELSE n

\* one entry of iteration_response: the step number it prints, its turn, and
\* for an error the text of the exception
LogEntry(t, n, kind, detail) == [turn |-> t, step |-> n, kind |-> kind, detail |-> detail]

\* the new values of the globals and of turn t's locals
Commit(t, it, lr, ir, newpc, tr, cq, pend, r, h) ==
    /\ iteration' = it
    /\ last_response' = lr
    /\ iteration_response' = ir
    /\ pc' = [pc EXCEPT ![t] = newpc]
    /\ tool_results' = [tool_results EXCEPT ![t] = tr]
    /\ current_query' = [current_query EXCEPT ![t] = cq]
    /\ pending' = [pending EXCEPT ![t] = pend]
    /\ ret' = [ret EXCEPT ![t] = r]
    /\ hist' = [hist EXCEPT ![t] = h]

\* agent.py:448-450, reached by break or by the loop condition
AfterLoop(t, it, lr, ir, tr, cq, h, how) ==
    Commit(t, it, lr, ir, "closing", tr, cq, NoPending,
           Return(EXHAUSTED_REPLY, BuildContext(tr)), [h EXCEPT !.how = how])

\* a handler that answers with a fixed text
OuterExceptFixedText(t, it, lr, ir, tr, cq, h, err) ==
    Commit(t, it, lr, ir, "closing", tr, cq, NoPending,
           Return(<<"Something went wrong">>, NoContext), [h EXCEPT !.how = "error"])

\* an exception that reaches the handler at agent.py:452
OuterExcept(t, it, lr, ir, tr, cq, h, err) ==
    Commit(t, it, lr, ir, "closing", tr, cq, NoPending,
           HandleChatExcept(err), [h EXCEPT !.how = "error"])

\* a loop that tests "iteration <= max_iterations"
LoopHeadPastCap(t, it, lr, ir, tr, cq, h) ==
    IF it <= max_iterations
    THEN Commit(t, it, lr, ir, "llm", tr, [bound |-> TRUE, q |-> t, steps |-> {}],
                NoPending, NoReturn, [h EXCEPT !.cycles = Bump(@)])
    ELSE AfterLoop(t, it, lr, ir, tr, cq, h, "cap")

\* agent.py:303-315: the loop condition, the query of this cycle, and the
\* model call that suspends the turn
LoopHead(t, it, lr, ir, tr, cq, h) ==
    IF it < max_iterations
    THEN IF lr = NoneResult
         THEN Commit(t, it, lr, ir, "llm", tr,
                     [bound |-> TRUE, q |-> t, steps |-> {}], NoPending, NoReturn,
                     [h EXCEPT !.cycles = Bump(@)])
         ELSE IF ~cq.bound
         THEN OuterExcept(t, it, lr, ir, tr, cq, h,
                  Raise("UnboundLocalError", <<"current_query referenced before assignment">>))
         ELSE Commit(t, it, lr, ir, "llm", tr,
                     [cq EXCEPT !.steps = @ \cup {ir[i] : i \in 1..Len(ir)}],
                     NoPending, NoReturn, [h EXCEPT !.cycles = Bump(@)])
    ELSE AfterLoop(t, it, lr, ir, tr, cq, h, "cap")

\* agent.py:116-127: reset_state(), then the Tool Server is started
StartTurn(t) ==
    /\ pc[t] = "idle"
    /\ Commit(t, 0, NoneResult, <<>>, "connect", <<>>, NoQuery, NoPending, NoReturn,
              InitHist)
    /\ http' = NoResponse
    /\ UNCHANGED <<fin, fout, mem, disk, rag>>

\* agent.py:127-301: the session is up and the catalogue fetched; the loop
\* starts with tool_results = {}
Connected(t) ==
    /\ pc[t] = "connect"
    /\ LoopHead(t, iteration, last_response, iteration_response, <<>>,
                current_query[t], hist[t])
    /\ UNCHANGED <<http, fin, fout, mem, disk, rag>>

\* the Tool Server cannot be started or reached
ConnectFail(t) ==
    /\ pc[t] = "connect"
    /\ OuterExcept(t, iteration, last_response, iteration_response, tool_results[t],
                   current_query[t], hist[t],
                   Raise("McpError", <<"Connection closed">>))
    /\ UNCHANGED <<http, fin, fout, mem, disk, rag>>

\* a model call whose exception reaches the handler of handle_chat
LLMFailEscapes(t) ==
    /\ pc[t] = "llm"
    /\ Commit(t, iteration, last_response, iteration_response, "closing",
              tool_results[t], current_query[t], NoPending,
              HandleChatExcept(Raise("TimeoutError", <<"timed out">>)),
              [hist[t] EXCEPT !.allFC = FALSE, !.how = "llm_fail"])
    /\ UNCHANGED <<http, fin, fout, mem, disk, rag>>

\* agent.py:326-328: the model call raised (timeout or provider error)
LLMFail(t) ==
    /\ pc[t] = "llm"
    /\ AfterLoop(t, iteration, last_response, iteration_response, tool_results[t],
                 current_query[t], [hist[t] EXCEPT !.allFC = FALSE], "llm_fail")
    /\ UNCHANGED <<http, fin, fout, mem, disk, rag>>

\* agent.py:316-397 and 438-446: the model answered with text
LLMReturn(t, text) ==
    /\ pc[t] = "llm"
    /\ LET response_text == ResponseText(text)
           h == [hist[t] EXCEPT !.plan = response_text]
       IN  IF StartsWith(response_text, FUNCTION_CALL_PREFIX)
           THEN LET p == AgentParse(response_text, ServerCatalogue, tool_results[t])
                IN  IF p.ok
                    THEN Commit(t, iteration, last_response, iteration_response, "tool",
                                tool_results[t], current_query[t],
                                [func_name |-> p.func_name, arguments |-> p.arguments],
                                NoReturn, [h EXCEPT !.calls = Bump(@)])
                    ELSE AfterLoop(t, iteration, last_response,
                                   Append(iteration_response,
                                          LogEntry(t, iteration + 1, "error", p.err.msg)),
                                   tool_results[t], current_query[t],
                                   [h EXCEPT !.allFC = FALSE], "act_fail")
           ELSE IF StartsWith(response_text, FINAL_ANSWER_PREFIX)
           THEN Commit(t, iteration, last_response, iteration_response, "closing",
                       tool_results[t], current_query[t], NoPending,
                       Return(FinalAnswer(response_text), BuildContext(tool_results[t])),
                       [h EXCEPT !.how = "final", !.allFC = FALSE])
           ELSE LoopHead(t, iteration + 1, last_response, iteration_response,
                         tool_results[t], current_query[t], [h EXCEPT !.allFC = FALSE])
    /\ UNCHANGED <<http, fin, fout, mem, disk, rag>>

\* agent.py:397-428 and 446: the Tool Server answered the call
ToolReturn(t, o) ==
    /\ pc[t] = "tool"
    /\ LET func_name == pending[t].func_name
           body == ToolOp(func_name, ArgTexts(pending[t].arguments), o)
           iteration_result == DictResult(body, <<t, hist[t].calls>>)
       IN  LoopHead(t, iteration + 1, iteration_result,
                    Append(iteration_response, LogEntry(t, iteration + 1, "call", <<>>)),
                    DictSet(tool_results[t], func_name, iteration_result),
                    current_query[t],
                    [hist[t] EXCEPT !.latest =
                        [x \in DOMAIN @ \cup {func_name} |->
                            IF x = func_name THEN iteration_result ELSE @[x]]])
    /\ UNCHANGED <<http, fin, fout, mem, disk, rag>>

\* the call is answered with what the operation made of its delegate's outcome
ToolReturns(t) ==
    /\ pc[t] = "tool"
    /\ \E o \in DelegateOutcomes(pending[t].func_name, ArgTexts(pending[t].arguments)) :
          ToolReturn(t, o)

\* agent.py:430-436: session.call_tool raised
ToolFail(t) ==
    /\ pc[t] = "tool"
    /\ AfterLoop(t, iteration, last_response,
                 Append(iteration_response,
                        LogEntry(t, iteration + 1, "error", <<"Connection closed">>)),
                 tool_results[t], current_query[t],
                 [hist[t] EXCEPT !.allFC = FALSE], "act_fail")
    /\ UNCHANGED <<http, fin, fout, mem, disk, rag>>

\* agent.py:457-458: the sessions are closed, finally: reset_state()
CloseTurn(t) ==
    /\ pc[t] = "closing"
    /\ Commit(t, 0, NoneResult, <<>>, "done", tool_results[t], current_query[t],
              NoPending, ret[t], hist[t])
    /\ UNCHANGED <<http, fin, fout, mem, disk, rag>>

-----------------------------------------------------------------------------
(* server.py: the two endpoints *)

\* a 200 response of a route, with its JSON body
Ok200(route, body) == [route |-> route, status |-> 200, body |-> body]

\* what FastAPI answers when the endpoint function raises
Error500(route) == [route |-> route, status |-> 500, body |-> <<"Internal Server Error">>]

\* server.py:73-82: POST /chat, once handle_chat has returned or raised
ChatResponse(result) ==
    IF result.raised THEN Error500("/chat")
    ELSE Ok200("/chat", [reply |-> result.reply, context |-> result.context])

\* server.py:45: the field error is a str or None
ErrorNone == [none |-> TRUE]

ErrorStr(text) == [none |-> FALSE, text |-> text]

\* server.py:57-70: GET /emails/unread-today
UnreadResponse(o) ==
    CASE o.kind = "ok" -> Ok200("/emails/unread-today", [emails |-> o.value, error |-> ErrorNone])
      [] o.kind = "FileNotFoundError" ->
            Ok200("/emails/unread-today", [emails |-> <<>>, error |-> ErrorStr(o.msg)])
      [] OTHER ->
            Ok200("/emails/unread-today",
                  [emails |-> <<>>, error |-> ErrorStr(<<"Gmail error: ">> \o o.msg)])

\* POST /chat returns: the slot of the turn is free again
ChatReturns(t) ==
    /\ pc[t] = "done"
    /\ http' = ChatResponse(ret[t])
    /\ Commit(t, iteration, last_response, iteration_response, "idle", <<>>, NoQuery,
              NoPending, NoReturn, InitHist)
    /\ UNCHANGED <<fin, fout, mem, disk, rag>>

\* GET /emails/unread-today, with the outcome o of get_unread_emails_today()
UnreadToday(o) ==
    /\ \A t \in Turns : pc[t] = "idle"
    /\ http' = UnreadResponse(o)
    /\ UNCHANGED <<agentVars, fin, fout, mem, disk, rag>>

\* what get_unread_emails_today() of gmail_client.py can do
UnreadOutcomes ==
    {[kind |-> "ok", value |-> <<>>], [kind |-> "ok", value |-> <<"mail">>],
     MissingToken, ProviderDown}

-----------------------------------------------------------------------------
(* rag.py: index_document.  disk holds the two files of rag_index/: the     *)
(* rows of index.bin and the records of metadata.json.  A content is its    *)
(* identity and the number n of words of its cleaned text; a chunk is the   *)
(* words lo+1..hi of its content.  rag.calls[c] is the call process c is    *)
(* in or was last in, with the files as they were when it started (before)  *)
(* and when it returned (after), and rag.indexed the titles for which a     *)
(* call has returned "indexed" (known: the title was one when c started).   *)

CHUNK_SIZE == 512

CHUNK_OVERLAP == 40

\* range(0, len(words), size - overlap), from the start i on
RECURSIVE Windows(_, _, _, _)
Windows(content, i, size, overlap) ==
    IF i >= content.n THEN <<>>
    ELSE <<[of |-> content.id, lo |-> i,
            hi |-> IF i + size < content.n THEN i + size ELSE content.n]>>
         \o Windows(content, i + (size - overlap), size, overlap)

\* windows that start where the one before ends
chunk_textNoOverlap(content) == Windows(content, 0, CHUNK_SIZE, 0)

\* rag.py:56-66
chunk_text(content) == Windows(content, 0, CHUNK_SIZE, CHUNK_OVERLAP)

NoCall == [pc |-> "idle"]

\* what is kept of a call that has ended: its arguments, what it returned,
\* whether its title was in rag.indexed when it started (known) and whether
\* the two files are as they were when it started (unchanged)
Ended(call, result, after) ==
    [title |-> call.title, content |-> call.content, known |-> call.known,
     result |-> result, unchanged |-> after = call.before]

\* a test that looks at the last record only
IsDuplicateOfLast(metadata, title) ==
    metadata # <<>> /\ metadata[Len(metadata)].title = title

\* rag.py:89: any(m.get("title") == title for m in metadata)
IsDuplicate(metadata, title) == \E i \in 1..Len(metadata) : metadata[i].title = title

\* rag.py:80-96: the files are read, the title looked up, the text chunked
IndexStart(c, title, content) ==
    /\ rag.calls[c].pc = "idle"
    /\ LET loaded == disk.index.exists /\ disk.metadata.exists
           index == IF loaded THEN [made |-> TRUE, rows |-> disk.index.rows]
                    ELSE [made |-> FALSE, rows |-> <<>>]
           metadata == IF loaded THEN disk.metadata.records ELSE <<>>
           chunks == chunk_text(content)
           call == [pc |-> "embedding", title |-> title, content |-> content,
                    index |-> index, metadata |-> metadata, chunks |-> chunks,
                    before |-> disk, known |-> title \in rag.indexed]
       IN  rag' = IF IsDuplicate(metadata, title)
                  THEN [rag EXCEPT !.last =
                          Ended(call, [status |-> "already_indexed", title |-> title,
                                       chunks |-> 0], disk)]
                  ELSE IF chunks = <<>>
                  THEN [rag EXCEPT !.last =
                          Ended(call, [status |-> "empty", title |-> title, chunks |-> 0],
                                disk)]
                  ELSE [rag EXCEPT !.calls[c] = call]
    /\ UNCHANGED <<agentVars, http, fin, fout, mem, disk>>

\* rag.py:101-104: a request for an embedding fails and the call raises
IndexEmbedFail(c) ==
    /\ rag.calls[c].pc = "embedding"
    /\ rag' = [rag EXCEPT !.calls[c] = NoCall,
                          !.last = Ended(rag.calls[c],
                                         [status |-> "raised", title |-> rag.calls[c].title,
                                          chunks |-> 0], disk)]
    /\ UNCHANGED <<agentVars, http, fin, fout, mem, disk>>

\* rag.py:101-121: the chunks are embedded, the rows and the records added
\* in memory, and index.bin is written
IndexWriteIndex(c) ==
    /\ rag.calls[c].pc = "embedding"
    /\ LET call == rag.calls[c]
           rows == call.index.rows \o [i \in 1..Len(call.chunks) |-> call.chunks[i]]
           metadata == call.metadata \o
                       [i \in 1..Len(call.chunks) |->
                           [title |-> call.title, chunk |-> call.chunks[i],
                            chunk_id |-> <<call.title, "_", i - 1>>]]
       IN  /\ disk' = [disk EXCEPT !.index = [exists |-> TRUE, rows |-> rows]]
           /\ rag' = [rag EXCEPT !.calls[c].pc = "saving",
                                 !.calls[c].index = [made |-> TRUE, rows |-> rows],
                                 !.calls[c].metadata = metadata]
    /\ UNCHANGED <<agentVars, http, fin, fout, mem>>

\* rag.py:122-125: metadata.json is written and the call returns "indexed"
IndexWriteMetadata(c) ==
    /\ rag.calls[c].pc = "saving"
    /\ disk' = [disk EXCEPT !.metadata = [exists |-> TRUE, records |-> rag.calls[c].metadata]]
    /\ rag' = [calls |-> [rag.calls EXCEPT ![c] = NoCall],
               indexed |-> rag.indexed \cup {rag.calls[c].title},
               last |-> Ended(rag.calls[c],
                              [status |-> "indexed", title |-> rag.calls[c].title,
                               chunks |-> Len(rag.calls[c].chunks)], disk')]
    /\ UNCHANGED <<agentVars, http, fin, fout, mem>>

-----------------------------------------------------------------------------
(* The parts of the state a specification does not move *)

NoInput == [f |-> "none"]

NoOutput == [f |-> "none"]

AgentInit ==
    /\ iteration = 0
    /\ last_response = NoneResult
    /\ iteration_response = <<>>
    /\ pc = [t \in Turns |-> "idle"]
    /\ tool_results = [t \in Turns |-> <<>>]
    /\ current_query = [t \in Turns |-> NoQuery]
    /\ pending = [t \in Turns |-> NoPending]
    /\ ret = [t \in Turns |-> NoReturn]
    /\ hist = [t \in Turns |-> InitHist]
    /\ http = NoResponse

FunInit == fin = NoInput /\ fout = NoOutput

MemInit == mem = [index |-> [d |-> 0, rows |-> <<>>, made |-> FALSE], data |-> <<>>, embeddings |-> <<>>]

RagInit ==
    /\ disk = [index |-> [exists |-> FALSE, rows |-> <<>>],
               metadata |-> [exists |-> FALSE, records |-> <<>>]]
    /\ rag = [calls |-> [c \in Callers |-> NoCall], indexed |-> {},
              last |-> [known |-> FALSE, result |-> [status |-> "none"]]]

-----------------------------------------------------------------------------
(* The server handling one chat request at a time *)

Init == AgentInit /\ FunInit /\ MemInit /\ RagInit

\* no other turn is in flight
Alone(t) == \A u \in Turns \ {t} : pc[u] = "idle"

Next ==
    \/ \E t \in Turns : Alone(t) /\ StartTurn(t)
    \/ \E t \in Turns : Connected(t)
    \/ \E t \in Turns : ConnectFail(t)
    \/ \E t \in Turns : \E text \in LLMResponses : LLMReturn(t, text)
    \/ \E t \in Turns : LLMFail(t)
    \/ \E t \in Turns : ToolReturns(t)
    \/ \E t \in Turns : ToolFail(t)
    \/ \E t \in Turns : CloseTurn(t)
    \/ \E t \in Turns : ChatReturns(t)
    \/ \E o \in UnreadOutcomes : UnreadToday(o)

Spec == Init /\ [][Next]_vars

-----------------------------------------------------------------------------
(* The server handling chat requests at the same time: the turns take turns *)
(* at their awaits and share the globals of agent.py                         *)

\* what the model answers: to the first turn a call, a final answer or
\* something else; to the turns that come and go beside it a final answer
\* or a call of a tool that does not exist
ConcResponses(t) ==
    IF t = 1
    THEN { FcLine("get_todays_events", <<>>),
           FaLine(<<" ", "[", "Hello", "]">>),
           <<"I", " ", "will", " ", "check">> }
    ELSE { FaLine(<<" ", "[", "Hello", "]">>),
           FcLine("no_such_tool", <<"|", "x">>) }

InitConc == AgentInit /\ FunInit /\ MemInit /\ RagInit

NextConc ==
    \/ \E t \in Turns : StartTurn(t)
    \/ \E t \in Turns : Connected(t)
    \/ \E t \in Turns : ConnectFail(t)
    \/ \E t \in Turns : \E text \in ConcResponses(t) : LLMReturn(t, text)
    \/ \E t \in Turns : LLMFail(t)
    \/ \E t \in Turns : ToolReturn(t, [kind |-> "ok", value |-> <<"event">>])
    \/ \E t \in Turns : ToolFail(t)
    \/ \E t \in Turns : CloseTurn(t)
    \/ \E t \in Turns : ChatReturns(t)

SpecConc == InitConc /\ [][NextConc]_vars

\* the same with every connection and every call returning a value: the
\* first turn is answered with a call or a final answer, the turns beside it
\* with a final answer
LiveResponses(t) ==
    IF t = 1
    THEN {FcLine("get_todays_events", <<>>), FaLine(<<" ", "[", "Hello", "]">>)}
    ELSE {FaLine(<<" ", "[", "Hello", "]">>)}

NextLive ==
    \/ \E t \in Turns : StartTurn(t)
    \/ \E t \in Turns : Connected(t)
    \/ \E t \in Turns : \E text \in LiveResponses(t) : LLMReturn(t, text)
    \/ \E t \in Turns : ToolReturn(t, [kind |-> "ok", value |-> <<"event">>])
    \/ \E t \in Turns : CloseTurn(t)
    \/ \E t \in Turns : ChatReturns(t)

\* agent.py:316-317: the awaited model call of turn t returns a plan; of the
\* steps of NextLive these are the ones that take pc[t] from "llm" to the
\* tool call or to the return
LLMAnswers(t) ==
    /\ pc[t] = "llm"
    /\ \E v \in {"tool", "closing"} : pc' = [pc EXCEPT ![t] = v]

\* the event loop runs every coroutine that can go on: a connection, a model
\* call and a tool call end, and a turn that has left the loop closes and
\* returns
FairLive ==
    \A t \in Turns :
        /\ WF_vars(Connected(t))
        /\ WF_pc(LLMAnswers(t))
        /\ WF_vars(ToolReturn(t, [kind |-> "ok", value |-> <<"event">>]))
        /\ WF_vars(CloseTurn(t))
        /\ WF_vars(ChatReturns(t))

SpecLive == InitConc /\ [][NextLive]_vars /\ FairLive

-----------------------------------------------------------------------------
(* _build_context on its own: every map of at most MaxCtxTools results *)

MaxCtxTools == 2

\* the ten names of the table and one the table does not hold
CtxToolNames == {TOOL_TO_CONTEXT[i].tool : i \in 1..Len(TOOL_TO_CONTEXT)} \cup {"list_labels"}

\* a captured result of the tool name: of kind "dict" it is a map that holds
\* the name under the key the tool's payload uses
CtxResult(name, kind) ==
    CASE kind = "dict" ->
            DictResult(Map1(CASE name \in {"get_todays_events", "get_events_for_date"} -> "events"
                              [] name \in {"get_unread_emails_today", "get_emails_by_date_range",
                                           "search_emails"} -> "emails"
                              [] OTHER -> "status",
                            <<name>>), <<0, 0>>)
      [] kind = "text"  -> TextResult(<<0, 0>>)
      [] kind = "empty" -> EmptyResult(<<0, 0>>)

CtxEntries ==
    {[tool |-> n, result |-> CtxResult(n, k)] : n \in CtxToolNames, k \in {"dict", "text", "empty"}}

\* the maps: insertion-ordered, one entry per name
CtxMaps ==
    {tr \in UNION {[1..k -> CtxEntries] : k \in 0..MaxCtxTools} :
        \A i, j \in 1..Len(tr) : tr[i].tool = tr[j].tool => i = j}

CtxInit ==
    /\ fin \in {[f |-> "_build_context", tool_results |-> tr] : tr \in CtxMaps}
    /\ fout = NoOutput

\* context = _build_context(tool_results)
CallBuildContext ==
    /\ fin.f = "_build_context"
    /\ fout = NoOutput
    /\ fout' = [f |-> "_build_context", context |-> BuildContext(fin.tool_results)]
    /\ UNCHANGED <<agentVars, http, fin, mem, disk, rag>>

InitCtx == AgentInit /\ CtxInit /\ MemInit /\ RagInit

NextCtx == CallBuildContext

SpecCtx == InitCtx /\ [][NextCtx]_vars

-----------------------------------------------------------------------------
(* memory.py: MemoryManager.  mem.index is the FAISS index: made says it is *)
(* not None, d is its dimension, rows the vectors it holds in order.        *)

MaxItems == 3

\* MemoryItem (memory.py:24-31): the fields the manager reads; session_id is
\* Optional, "None" standing for None
MemItems ==
    {[text |-> "hello", session_id |-> "s1", type |-> "tool_output"],
     [text |-> "", session_id |-> "s1", type |-> "user_query"],
     [text |-> "hello", session_id |-> "s2", type |-> "user_query"]}

\* what _get_embedding(item.text) does (memory.py:51-58): the request fails,
\* or the answer holds a vector of some length, or it holds no vector (null),
\* which np.array turns into a 0-dimensional array
EmbedRaise == [shape |-> "raise", msg |-> <<"ConnectionError">>]

EmbedVector(item, d) == [shape |-> "vector", d |-> d, of |-> item]

EmbedScalar(item) == [shape |-> "scalar", d |-> 0, of |-> item]

EmbedOutcomes(item) ==
    {EmbedRaise, EmbedScalar(item)} \cup {EmbedVector(item, d) : d \in {0, 768}}

\* memory.py:66-68: the index after "if self.index is None: ..." and
\* "self.index.add(np.stack([emb]))"; an exception leaves it as it was at
\* the statement that raised
IndexAfterAdd(index, emb) ==
    IF ~index.made /\ emb.shape = "scalar" THEN index     \* len(emb): TypeError
    ELSE LET made == IF index.made THEN index
                     ELSE [made |-> TRUE, d |-> emb.d, rows |-> <<>>]
         IN  IF emb.shape = "scalar" \/ emb.d # made.d
             THEN made                                     \* index.add raises
             ELSE [made EXCEPT !.rows = Append(@, emb)]

\* memory.py:60-74: add(item), with the outcome emb of the embedding request
MemAdd(item, emb) ==
    /\ fout = NoOutput
    /\ Len(mem.data) < MaxItems
    /\ mem' = IF emb.shape = "raise" THEN mem
              ELSE [index |-> IndexAfterAdd(mem.index, emb),
                    data |-> Append(mem.data, item),
                    embeddings |-> Append(mem.embeddings, emb)]
    /\ UNCHANGED <<agentVars, http, fin, fout, disk, rag>>

\* memory.py:113-118: clear()
MemClear ==
    /\ fout = NoOutput
    /\ mem' = [index |-> [d |-> 0, rows |-> <<>>, made |-> FALSE],
               data |-> <<>>, embeddings |-> <<>>]
    /\ UNCHANGED <<agentVars, http, fin, fout, disk, rag>>

\* the dimension of query_vec after reshape(1, -1): a 0-dimensional array
\* becomes one row of one number
QueryDim(emb) == IF emb.shape = "scalar" THEN 1 ELSE emb.d

\* I[0] of self.index.search(query_vec, k): the places (from 0) of the rows
\* nearest to the query, nearest first, which for n rows are taken to be
\* the rows from the place "nearest" on, and -1 where the index has fewer
\* than k rows
SearchPlaces(n, nearest, k) ==
    [j \in 1..k |-> IF j <= n THEN (nearest + j - 1) % n ELSE -1]

\* self.data[idx], a negative idx counting from the end of the list
DataAt(data, idx) == IF idx < 0 THEN data[Len(data) + idx + 1] ELSE data[idx + 1]

\* a loop that tests the filters after it has taken the item
RECURSIVE RetrieveLoopTakeFirst(_, _, _, _, _, _, _)
RetrieveLoopTakeFirst(I, j, data, top_k, session_filter, type_filter, results) ==
    IF j > Len(I) THEN results
    ELSE IF I[j] >= Len(data)
    THEN RetrieveLoopTakeFirst(I, j + 1, data, top_k, session_filter, type_filter, results)
    ELSE LET taken == Append(results, DataAt(data, I[j]))
         IN  IF Len(taken) >= top_k THEN taken
             ELSE RetrieveLoopTakeFirst(I, j + 1, data, top_k, session_filter,
                                        type_filter, taken)

\* memory.py:93-105: the loop over I[0], from its j-th entry on; the filters
\* are None ("None") or a text
RECURSIVE RetrieveLoop(_, _, _, _, _, _, _)
RetrieveLoop(I, j, data, top_k, session_filter, type_filter, results) ==
    IF j > Len(I) THEN results
    ELSE IF I[j] >= Len(data)
    THEN RetrieveLoop(I, j + 1, data, top_k, session_filter, type_filter, results)
    ELSE LET item == DataAt(data, I[j])
         IN  IF type_filter \notin {"None", ""} /\ item.type # type_filter
             THEN RetrieveLoop(I, j + 1, data, top_k, session_filter, type_filter, results)
             ELSE IF session_filter \notin {"None", ""} /\ item.session_id # session_filter
             THEN RetrieveLoop(I, j + 1, data, top_k, session_filter, type_filter, results)
             ELSE LET taken == Append(results, item)
                  IN  IF Len(taken) >= top_k THEN taken
                      ELSE RetrieveLoop(I, j + 1, data, top_k, session_filter,
                                        type_filter, taken)

\* memory.py:76-111: retrieve(query, top_k, session_filter, type_filter), with
\* the outcome emb of the embedding request for the query and the place of
\* the row nearest to it; every exception ends in "return []"
Retrieve(m, emb, nearest, top_k, session_filter, type_filter) ==
    IF ~m.index.made \/ Len(m.data) = 0 THEN <<>>
    ELSE IF emb.shape = "raise" THEN <<>>
    ELSE LET k == IF top_k * 2 < Len(m.data) THEN top_k * 2 ELSE Len(m.data)
         IN  IF QueryDim(emb) # m.index.d \/ k <= 0 THEN <<>>   \* search raises
             ELSE RetrieveLoop(SearchPlaces(Len(m.index.rows), nearest, k), 1, m.data,
                               top_k, session_filter, type_filter, <<>>)

\* a call of retrieve returns
MemRetrieve(emb, nearest, top_k, session_filter, type_filter) ==
    /\ fout = NoOutput
    /\ fout' = [f |-> "retrieve", top_k |-> top_k, session_filter |-> session_filter,
                results |-> Retrieve(mem, emb, nearest, top_k, session_filter, type_filter)]
    /\ UNCHANGED <<agentVars, http, fin, mem, disk, rag>>

\* the caller has taken the list
MemReturn ==
    /\ fout # NoOutput
    /\ fout' = NoOutput
    /\ UNCHANGED <<agentVars, http, fin, mem, disk, rag>>

\* the queries of the model: what their embedding request does
QueryOutcomes ==
    {EmbedRaise, EmbedScalar("query")} \cup {EmbedVector("query", d) : d \in {0, 768}}

TopKs == {0, 1, 2}

SessionFilters == {"None", "s1", "s2"}

TypeFilters == {"None", "tool_output"}

InitMem == AgentInit /\ FunInit /\ MemInit /\ RagInit

NextMem ==
    \/ \E item \in MemItems : \E emb \in EmbedOutcomes(item) : MemAdd(item, emb)
    \/ MemClear
    \/ \E emb \in QueryOutcomes : \E nearest \in 0..MaxItems : \E top_k \in TopKs :
       \E session_filter \in SessionFilters : \E type_filter \in TypeFilters :
          /\ nearest = 0 \/ (nearest < Len(mem.index.rows) /\ emb.shape = "vector")
          /\ MemRetrieve(emb, nearest, top_k, session_filter, type_filter)
    \/ MemReturn

SpecMem == InitMem /\ [][NextMem]_vars

-----------------------------------------------------------------------------
(* The ten operations of mcp_tools.py on their own *)

ArgValues == {<<"x">>, <<"2026-03-05">>}

\* the keyword arguments of a call to the operation at place k of the catalogue
ToolArgs(k) ==
    [{ServerCatalogue[k].params[i].name : i \in 1..Len(ServerCatalogue[k].params)} -> ArgValues]

\* one call of one operation, with the way its delegate call ends
ToolCalls ==
    UNION {UNION {{[f |-> "tool", name |-> ServerCatalogue[k].name, a |-> a, o |-> o] :
                      o \in DelegateOutcomes(ServerCatalogue[k].name, a)} :
                  a \in ToolArgs(k)} :
           k \in 1..Len(ServerCatalogue)}

ToolsInit == fin \in ToolCalls /\ fout = NoOutput

\* the Tool Server runs the operation
CallTool ==
    /\ fin.f = "tool"
    /\ fout = NoOutput
    /\ fout' = [f |-> "tool", delegate |-> fin.o, result |-> ToolOp(fin.name, fin.a, fin.o)]
    /\ UNCHANGED <<agentVars, http, fin, mem, disk, rag>>

InitTools == AgentInit /\ ToolsInit /\ MemInit /\ RagInit

NextTools == CallTool

SpecTools == InitTools /\ [][NextTools]_vars

-----------------------------------------------------------------------------
(* Parsing a FUNCTION_CALL line on its own: execute_tool of action.py and   *)
(* the same steps as handle_chat does them, on the same lines               *)

MaxValues == 3

\* a catalogue with a tool of one string, one of an integer and a number,
\* and one of three strings
ParseCatalogue ==
    << [name |-> "get_events_for_date", params |-> <<StrParam("date")>>],
       [name |-> "scale_by",
        params |-> <<[name |-> "count", type |-> "integer"],
                     [name |-> "factor", type |-> "number"]>>],
       [name |-> "send_email",
        params |-> <<StrParam("to"), StrParam("subject"), StrParam("body")>>] >>

\* the positional values a line may carry, as the model wrote them
ValueTexts ==
    { <<"3">>, <<"-", "2">>, <<"2", ".", "5">>, <<"2", ".", "5", "0">>,
      <<" ", "2026-03-05", " ">>, <<"f", ":", "x">>, <<>> }

RECURSIVE JoinValues(_)
JoinValues(values) ==
    IF values = <<>> THEN <<>>
    ELSE <<"|">> \o Head(values) \o JoinValues(Tail(values))

ParseInputs ==
    {[f |-> "parse", name |-> n, values |-> v, line |-> FcLine(n, JoinValues(v))] :
        n \in {ParseCatalogue[k].name : k \in 1..Len(ParseCatalogue)} \cup {"no_such_tool"},
        v \in UNION {[1..k -> ValueTexts] : k \in 0..MaxValues}}

ParseInit == fin \in ParseInputs /\ fout = NoOutput

\* what the caller of a parser has after it: the call it sends to the Tool
\* Server, or the exception
AfterParse(by, p) ==
    IF p.ok
    THEN [f |-> by, st |-> "awaiting",
          call |-> [tool_name |-> p.func_name, arguments |-> p.arguments]]
    ELSE [f |-> by, st |-> "raised", err |-> p.err]

\* action.py:95-105: execute_tool up to "await session.call_tool"
ExecuteTool ==
    /\ fin.f = "parse"
    /\ fout = NoOutput
    /\ fout' = AfterParse("execute_tool", parse_function_call(fin.line, ParseCatalogue, <<>>))
    /\ UNCHANGED <<agentVars, http, fin, mem, disk, rag>>

\* action.py:105-126: the call returned, out is the list of content texts
ExecuteToolReturns(out) ==
    /\ fout # NoOutput
    /\ fout.f = "execute_tool"
    /\ fout.st = "awaiting"
    /\ fout' = [f |-> "execute_tool", st |-> "returned", call |-> fout.call,
                result |-> [tool_name |-> fout.call.tool_name,
                            arguments |-> fout.call.arguments, result |-> out]]
    /\ UNCHANGED <<agentVars, http, fin, mem, disk, rag>>

\* agent.py:331-397: handle_chat up to "await session.call_tool"
InlineParse ==
    /\ fin.f = "parse"
    /\ fout = NoOutput
    /\ fout' = AfterParse("handle_chat", AgentParse(fin.line, ParseCatalogue, <<>>))
    /\ UNCHANGED <<agentVars, http, fin, mem, disk, rag>>

InitParse == AgentInit /\ ParseInit /\ MemInit /\ RagInit

NextParse ==
    \/ ExecuteTool
    \/ \E out \in {DictResult(Map1("status", <<"ok">>), <<0, 0>>), EmptyResult(<<0, 0>>)} :
          ExecuteToolReturns(out)
    \/ InlineParse

SpecParse == InitParse /\ [][NextParse]_vars

-----------------------------------------------------------------------------
(* calendar_client.py: check_free_slots.  A time is the number of minutes   *)
(* since 00:00 of the date asked for, as the ISO text of the event reads    *)
(* once its timezone is dropped; an all-day event reads 00:00 to 24:00.     *)

MaxEvents == 2

\* datetime.strptime(f"{date} 08:00", ...) and f"{date} 18:00"
day_start == 480

day_end == 1080

\* the start and end texts of an event: an ISO text, or "" 
IsoTime(m) == [iso |-> TRUE, min |-> m]

NoTime == [iso |-> FALSE, min |-> 0]

TwoDigits(n) ==
    <<"0", "1", "2", "3", "4", "5", "6", "7", "8", "9">>[(n \div 10) + 1]
    \o <<"0", "1", "2", "3", "4", "5", "6", "7", "8", "9">>[(n % 10) + 1]

\* a 24-hour rendering of the time
strftime24(m) == TwoDigits(m \div 60) \o ":" \o TwoDigits(m % 60)

\* datetime.strftime("%I:%M %p")
strftime(m) ==
    LET hour == (m \div 60) % 24
        I == IF hour % 12 = 0 THEN 12 ELSE hour % 12
    IN  TwoDigits(I) \o ":" \o TwoDigits(m % 60) \o " " \o (IF hour < 12 THEN "AM" ELSE "PM")

Max(a, b) == IF a >= b THEN a ELSE b

Min(a, b) == IF a <= b THEN a ELSE b

\* calendar_client.py:158-179: the loop that fills busy_blocks
RECURSIVE BusyBlocks(_)
BusyBlocks(events) ==
    IF events = <<>> THEN <<>>
    ELSE LET ev == Head(events)
             ev_start == Max(ev.start.min, day_start)
             ev_end == Min(ev.end.min, day_end)
         IN  IF ev.start.iso /\ ev.end.iso /\ ev_start < ev_end
             THEN <<[start |-> ev_start, end |-> ev_end, title |-> ev.summary]>>
                  \o BusyBlocks(Tail(events))
             ELSE BusyBlocks(Tail(events))

\* list.sort(key=lambda b: b[0]): stable, by start
RECURSIVE InsertByStart(_, _)
InsertByStart(sorted, b) ==
    IF sorted = <<>> THEN <<b>>
    ELSE IF b.start < Head(sorted).start THEN <<b>> \o sorted
    ELSE <<Head(sorted)>> \o InsertByStart(Tail(sorted), b)

RECURSIVE SortByStart(_)
SortByStart(blocks) ==
    IF blocks = <<>> THEN <<>>
    ELSE InsertByStart(SortByStart(SubSeq(blocks, 1, Len(blocks) - 1)), blocks[Len(blocks)])

\* a sweep that goes on from the end of each block
RECURSIVE FreeSlotsFromEnd(_, _)
FreeSlotsFromEnd(blocks, current) ==
    IF blocks = <<>>
    THEN IF current < day_end
         THEN <<[start |-> strftime(current), end |-> strftime(day_end)]>>
         ELSE <<>>
    ELSE (IF current < Head(blocks).start
          THEN <<[start |-> strftime(current), end |-> strftime(Head(blocks).start)]>>
          ELSE <<>>)
         \o FreeSlotsFromEnd(Tail(blocks), Head(blocks).end)

\* calendar_client.py:184-200: the sweep over the sorted blocks
RECURSIVE FreeSlots(_, _)
FreeSlots(blocks, current) ==
    IF blocks = <<>>
    THEN IF current < day_end
         THEN <<[start |-> strftime(current), end |-> strftime(day_end)]>>
         ELSE <<>>
    ELSE (IF current < Head(blocks).start
          THEN <<[start |-> strftime(current), end |-> strftime(Head(blocks).start)]>>
          ELSE <<>>)
         \o FreeSlots(Tail(blocks), Max(current, Head(blocks).end))

\* check_free_slots(date), events being what get_events_for_date(date) returned
check_free_slots(date, events) ==
    LET busy_blocks == SortByStart(BusyBlocks(events))
    IN  [date |-> date,
         busy |-> [i \in 1..Len(busy_blocks) |->
                     [start |-> strftime(busy_blocks[i].start),
                      end |-> strftime(busy_blocks[i].end),
                      event |-> busy_blocks[i].title]],
         free |-> FreeSlots(busy_blocks, day_start)]

\* the times events start and end at
EventTimes == {0, 480, 540, 600, 750, 1080, 1140}

CalEvents ==
    {[summary |-> "Standup", start |-> IsoTime(a), end |-> IsoTime(b)] :
        a \in EventTimes, b \in {e \in EventTimes \cup {1440} : e > 0}}
    \cup {[summary |-> "Draft", start |-> NoTime, end |-> IsoTime(600)]}

CalInit ==
    /\ fin \in {[f |-> "check_free_slots", date |-> <<"2026-03-05">>, events |-> evs] :
                   evs \in UNION {[1..k -> CalEvents] : k \in 0..MaxEvents}}
    /\ \A i \in 1..Len(fin.events) : fin.events[i].start.min <= fin.events[i].end.min
    /\ fout = NoOutput

CallCheckFreeSlots ==
    /\ fin.f = "check_free_slots"
    /\ fout = NoOutput
    /\ fout' = [f |-> "check_free_slots", result |-> check_free_slots(fin.date, fin.events)]
    /\ UNCHANGED <<agentVars, http, fin, mem, disk, rag>>

InitCal == AgentInit /\ CalInit /\ MemInit /\ RagInit

NextCal == CallCheckFreeSlots

SpecCal == InitCal /\ [][NextCal]_vars

-----------------------------------------------------------------------------
(* index_document, one call at a time *)

\* the documents that are indexed
Titles == {"report.pdf", "notes.txt"}

Contents == {[id |-> d, n |-> n] : d \in {"a", "b"}, n \in {0, 1, 473}}

\* no other process is inside index_document
NoOtherCall(c) == \A d \in Callers \ {c} : rag.calls[d].pc = "idle"

InitRag == AgentInit /\ FunInit /\ MemInit /\ RagInit

NextRag ==
    \/ \E c \in Callers : \E title \in Titles : \E content \in Contents :
          NoOtherCall(c) /\ IndexStart(c, title, content)
    \/ \E c \in Callers : IndexEmbedFail(c)
    \/ \E c \in Callers : IndexWriteIndex(c)
    \/ \E c \in Callers : IndexWriteMetadata(c)

SpecRag == InitRag /\ [][NextRag]_vars

-----------------------------------------------------------------------------
(* chunk_text on its own: every text of at most MaxWords cleaned words *)

MaxWords == 1000

ChunkInit ==
    /\ fin \in {[f |-> "chunk_text", content |-> [id |-> "a", n |-> n]] : n \in 0..MaxWords}
    /\ fout = NoOutput

CallChunkText ==
    /\ fin.f = "chunk_text"
    /\ fout = NoOutput
    /\ fout' = [f |-> "chunk_text", chunks |-> chunk_text(fin.content)]
    /\ UNCHANGED <<agentVars, http, fin, mem, disk, rag>>

InitChunk == AgentInit /\ ChunkInit /\ MemInit /\ RagInit

NextChunk == CallChunkText

SpecChunk == InitChunk /\ [][NextChunk]_vars

-----------------------------------------------------------------------------
(* index_document called by processes that run at the same time: each reads *)
(* the two files when it starts and writes them when it ends                 *)

\* an empty document, one of one chunk and one of two chunks
ConcContents ==
    {[id |-> "a", n |-> 0], [id |-> "a", n |-> 1], [id |-> "b", n |-> 473]}

InitRagConc == AgentInit /\ FunInit /\ MemInit /\ RagInit

NextRagConc ==
    \/ \E c \in Callers : \E title \in Titles : \E content \in ConcContents :
          IndexStart(c, title, content)
    \/ \E c \in Callers : IndexEmbedFail(c)
    \/ \E c \in Callers : IndexWriteIndex(c)
    \/ \E c \in Callers : IndexWriteMetadata(c)

SpecRagConc == InitRagConc /\ [][NextRagConc]_vars

-----------------------------------------------------------------------------
(* Properties of a turn and of the two endpoints *)

\* the turn has left the loop of handle_chat
TurnEnded(t) == pc[t] \in {"closing", "done"}

\* every decision of the turn was a FUNCTION_CALL line that parsed and whose
\* call returned, and there was at least one
AllCalls(t) == TurnEnded(t) /\ hist[t].allFC /\ hist[t].cycles > 0

\* the number of entries of iteration_response that record a returned call
RECURSIVE CallEntries(_)
CallEntries(ir) ==
    IF ir = <<>> THEN 0
    ELSE (IF Head(ir).kind = "call" THEN 1 ELSE 0) + CallEntries(Tail(ir))

\* C1 as stated: a turn of nothing but successful FUNCTION_CALL decisions
\* runs exactly 10 cycles and returns the step-limit apology with the
\* context of its tool results
C1_TenCycles ==
    \A t \in Turns :
        AllCalls(t) =>
            /\ hist[t].cycles = 10
            /\ ret[t] = Return(<<"I wasn't able to complete your request within the step limit. Please try a simpler query.">>,
                               BuildContext(tool_results[t]))

\* C1, amended: a turn of nothing but successful FUNCTION_CALL decisions
\* runs exactly 5 cycles (5 model calls, 5 tool calls), leaves the loop by
\* its condition, and returns "Sorry, I couldn't complete your request.
\* Please try again." with the context built from its tool results; before
\* that it never runs more than 5 cycles
C1_FiveCycles ==
    \A t \in Turns :
        /\ hist[t].cycles <= 5
        /\ AllCalls(t) =>
              /\ hist[t].how = "cap"
              /\ hist[t].cycles = 5
              /\ hist[t].calls = 5
              /\ ret[t] = Return(<<"Sorry, I couldn't complete your request. Please try again.">>,
                                 BuildContext(tool_results[t]))
              /\ tool_results[t] # <<>>

C1_Witness ==
    \E t \in Turns : AllCalls(t) /\ pc[t] = "closing" /\ iteration = 5
                      /\ Len(iteration_response) = 5

\* the text after the FINAL_ANSWER: prefix, trimmed, with one surrounding
\* pair of square brackets removed when there is one
WithoutOnePair(plan) ==
    LET rest == Strip(SubSeq(plan, 3, Len(plan)))
    IN  IF Len(rest) >= 2 /\ rest[1] = "[" /\ rest[Len(rest)] = "]"
        THEN Strip(SubSeq(rest, 2, Len(rest) - 1))
        ELSE rest

\* the decision of the turn's last cycle is a FINAL_ANSWER: line
FinalDecision(t) == StartsWith(hist[t].plan, FINAL_ANSWER_PREFIX)

\* C2 as stated: when a decision is a FINAL_ANSWER: line the turn has ended
\* with that decision, the reply is the text after the prefix without one
\* surrounding pair of brackets, the context is the one of the tool results
\* so far, and every tool call of the turn was made before it
C2_FinalAnswerEnds ==
    \A t \in Turns :
        FinalDecision(t) =>
            /\ TurnEnded(t)
            /\ hist[t].how = "final"
            /\ pending[t] = NoPending
            /\ hist[t].calls = CallEntries(iteration_response) \/ pc[t] = "done"
            /\ ret[t] = Return(WithoutOnePair(hist[t].plan), BuildContext(tool_results[t]))
            /\ (hist[t].plan = FaLine(<<" ", "[", "Hello", "]">>) /\ hist[t].cycles = 1)
                  => (ret[t].reply = <<"Hello">> /\ hist[t].calls = 0)

C2_Witness ==
    \E t \in Turns :
        /\ FinalDecision(t)
        /\ pc[t] = "closing"
        /\ hist[t].calls = 2
        /\ ret[t].reply = <<"[", "Hello", "]">>
        /\ ret[t].context # NoContext

-----------------------------------------------------------------------------
(* Properties of _build_context *)

\* the enumeration of the recognised tool names
Enumeration ==
    <<"get_todays_events", "get_events_for_date", "check_free_slots", "create_event",
      "get_unread_emails_today", "get_emails_by_date_range", "search_emails",
      "get_email_thread", "get_email_attachments", "send_email">>

\* the places in the enumeration of the names the map holds
PresentPlaces(tr) ==
    {i \in 1..Len(Enumeration) : \E j \in 1..Len(tr) : tr[j].tool = Enumeration[i]}

\* the name the context stands for: the payload of a "dict" result names its tool
NamedBy(context) ==
    IF context.data.proj = "whole" THEN context.data.map["status"]
    ELSE context.data.list

-----------------------------------------------------------------------------
(* Properties of MemoryManager *)

\* C4 as stated: after any adds and clears, failed adds included, there are
\* as many stored records as vectors in the index, and the record at
\* position i is the one whose vector is at position i of the index
C4_RecordsAlignedWithIndex ==
    /\ Len(mem.data) = Len(mem.index.rows)
    /\ \A i \in 1..Len(mem.data) : mem.index.rows[i].of = mem.data[i]

-----------------------------------------------------------------------------
(* Properties of the Tool Server operations *)

\* the empty result an operation adds to its error, as pairs of key and value
EmptyShape(name, a) ==
    CASE name \in {"get_unread_emails_today", "get_emails_by_date_range", "search_emails"} ->
            {<<"emails", <<>>>>}
      [] name = "get_email_thread" -> {<<"messages", <<>>>>}
      [] name = "get_email_attachments" -> {<<"attachments", <<>>>>}
      [] name \in {"send_email", "create_event"} -> {<<"status", <<"failed">>>>}
      [] name \in {"get_todays_events", "get_events_for_date"} -> {<<"events", <<>>>>}
      [] name = "check_free_slots" ->
            {<<"date", a["date"]>>, <<"busy", <<>>>>, <<"free", <<>>>>}

\* the provider an operation talks to
ProviderOf(name) ==
    IF name \in {"get_todays_events", "get_events_for_date", "check_free_slots", "create_event"}
    THEN "Calendar" ELSE "Gmail"

\* a map as the set of its pairs
PairsOf(m) == {<<k, m[k]>> : k \in DOMAIN m}

\* C6: every operation answers every outcome of its delegate with a map: for
\* a missing credential file the map holds error = the failure message, for
\* any other failure error = "Gmail API error: <message>" or "Calendar API
\* error: <message>", in both cases together with the operation's empty
\* result; for a delegate that succeeds the map holds no error key
C6_ToolsAnswerWithMap ==
    (fin.f = "tool" /\ fout # NoOutput) =>
        LET r == fout.result
            o == fout.delegate
        IN  /\ DOMAIN r \subseteq STRING
            /\ o.kind = "ok" => "error" \notin DOMAIN r
            /\ o.kind = "FileNotFoundError" =>
                  PairsOf(r) = {<<"error", o.msg>>} \cup EmptyShape(fin.name, fin.a)
            /\ o.kind = "Exception" =>
                  PairsOf(r) =
                      {<<"error", <<ProviderOf(fin.name) \o " API error: ">> \o o.msg>>}
                      \cup EmptyShape(fin.name, fin.a)

C6_Witness ==
    /\ fin.f = "tool"
    /\ fin.name = "check_free_slots"
    /\ fout # NoOutput
    /\ fout.delegate.kind = "Exception"
    /\ fout.result["error"] = <<"Calendar API error: ", "HttpError 500">>
    /\ fout.result["busy"] = <<>>

-----------------------------------------------------------------------------
(* Properties of the parsing of a FUNCTION_CALL line *)

\* what Python's int() and float() give for the value texts, and the texts
\* without the whitespace around them; a float is m * 10^-e
IntTable == {<< <<"3">>, 3 >>, << <<"-", "2">>, -2 >>}

FloatTable ==
    {<< <<"3">>, [m |-> 3, e |-> 0] >>, << <<"-", "2">>, [m |-> -2, e |-> 0] >>,
     << <<"2", ".", "5">>, [m |-> 25, e |-> 1] >>,
     << <<"2", ".", "5", "0">>, [m |-> 25, e |-> 1] >>}

Trimmed(value) == IF value = <<" ", "2026-03-05", " ">> THEN <<"2026-03-05">> ELSE value

\* the typed value the claim gives a positional value, as a set: empty when
\* the text is not of the type
Converted(type, value) ==
    CASE type = "integer" -> {IntArg(p[2]) : p \in {q \in IntTable : q[1] = Trimmed(value)}}
      [] type = "number"  -> {FloatArg(p[2]) : p \in {q \in FloatTable : q[1] = Trimmed(value)}}
      [] OTHER            -> {StrArg(Trimmed(value))}

\* the place in ParseCatalogue of the tool the line names, 0 for none
NamedTool == 
    IF \E k \in 1..Len(ParseCatalogue) : ParseCatalogue[k].name = fin.name
    THEN CHOOSE k \in 1..Len(ParseCatalogue) : ParseCatalogue[k].name = fin.name
    ELSE 0

\* C7: for a line that names a tool of the catalogue and carries as many
\* values as the tool has parameters, both parsers bind the i-th parameter
\* of the schema to the i-th value, an integer parameter to the integer, a
\* number parameter to the number, a string parameter to the trimmed text,
\* and call the tool of that name; they fail only on a value that is not of
\* its parameter's type
C7_PositionalTypedBinding ==
    (fin.f = "parse" /\ fout # NoOutput /\ NamedTool # 0
       /\ Len(fin.values) = Len(ParseCatalogue[NamedTool].params)) =>
        LET params == ParseCatalogue[NamedTool].params
            typed == \A i \in 1..Len(params) : Converted(params[i].type, fin.values[i]) # {}
        IN  /\ typed <=> fout.st # "raised"
            /\ typed =>
                  /\ fout.call.tool_name = fin.name
                  /\ DOMAIN fout.call.arguments = {params[i].name : i \in 1..Len(params)}
                  /\ \A i \in 1..Len(params) :
                        fout.call.arguments[params[i].name]
                            \in Converted(params[i].type, fin.values[i])

\* FUNCTION_CALL: scale_by|3|2.5 is bound to the integer 3 and the number 2.5
C7_Witness ==
    /\ fin.f = "parse"
    /\ fin.name = "scale_by"
    /\ fin.values = << <<"3">>, <<"2", ".", "5">> >>
    /\ fout # NoOutput
    /\ fout.st = "awaiting"
    /\ fout.call.arguments["count"] = IntArg(3)
    /\ fout.call.arguments["factor"] = FloatArg([m |-> 25, e |-> 1])

\* the line names a tool the catalogue does not hold, and a parser has run
UnknownToolParsed == fin.f = "parse" /\ fout # NoOutput /\ NamedTool = 0

\* the text is one of the atoms of the message
Mentions(msg, text) == \E i \in 1..Len(msg) : msg[i] = text

\* C8 as stated: a line naming a tool that is not in the catalogue fails with
\* an unknown-tool error whose message lists the names of the available
\* tools, and no call is sent for it
C8_UnknownToolListsNames ==
    UnknownToolParsed =>
        /\ fout.st = "raised"
        /\ StartsWith(fout.err.msg, <<"Unknown tool: ", fin.name>>)
        /\ \A k \in 1..Len(ParseCatalogue) : Mentions(fout.err.msg, ParseCatalogue[k].name)

\* C8, amended: such a line fails with a ValueError and no call is sent for
\* it; the message of execute_tool (parse_function_call) is "Unknown tool:
\* <name>. Available: <list of the catalogue's names>", the message of
\* handle_chat is "Unknown tool: <name>" alone
C8_UnknownToolFails ==
    UnknownToolParsed =>
        /\ fout.st = "raised"
        /\ fout.err.type = "ValueError"
        /\ fout.f = "execute_tool" =>
              fout.err.msg = <<"Unknown tool: ", fin.name, ". Available: ", "[",
                               "'", "get_events_for_date", "'", ", ",
                               "'", "scale_by", "'", ", ",
                               "'", "send_email", "'", "]">>
        /\ fout.f = "handle_chat" => fout.err.msg = <<"Unknown tool: ", fin.name>>

C8_Witness ==
    /\ UnknownToolParsed
    /\ fout.f = "execute_tool"
    /\ Mentions(fout.err.msg, "send_email")
    /\ Len(fin.values) = 1

-----------------------------------------------------------------------------
(* Properties of check_free_slots *)

\* the 12-hour text of the times an event may start or end at between 08:00
\* and 18:00
Clock(m) ==
    CASE m = 480 -> "08:00 AM" [] m = 540 -> "09:00 AM" [] m = 600 -> "10:00 AM"
      [] m = 750 -> "12:30 PM" [] m = 1080 -> "06:00 PM"

\* C9: with no event of the date busy is empty and free is 08:00 AM to
\* 06:00 PM; with one event from a to b, 08:00 <= a < b <= 18:00, busy is
\* that event and free is 08:00 to a when a > 08:00, followed by b to 18:00
\* when b < 18:00; an event from 09:00 to 10:00 leaves 08:00 AM-09:00 AM and
\* 10:00 AM-06:00 PM
C9_FreeSlotsAroundOneEvent ==
    (fin.f = "check_free_slots" /\ fout # NoOutput) =>
        /\ fin.events = <<>> =>
              /\ fout.result.busy = <<>>
              /\ fout.result.free = <<[start |-> "08:00 AM", end |-> "06:00 PM"]>>
        /\ (Len(fin.events) = 1 /\ fin.events[1].start.iso
               /\ 480 <= fin.events[1].start.min
               /\ fin.events[1].start.min < fin.events[1].end.min
               /\ fin.events[1].end.min <= 1080) =>
              LET a == fin.events[1].start.min
                  b == fin.events[1].end.min
              IN  /\ fout.result.busy =
                        <<[start |-> Clock(a), end |-> Clock(b), event |-> fin.events[1].summary]>>
                  /\ fout.result.free =
                        (IF a > 480 THEN <<[start |-> "08:00 AM", end |-> Clock(a)]>> ELSE <<>>)
                        \o (IF b < 1080 THEN <<[start |-> Clock(b), end |-> "06:00 PM"]>>
                            ELSE <<>>)
        /\ (Len(fin.events) = 1 /\ fin.events[1].start = IsoTime(540)
               /\ fin.events[1].end = IsoTime(600)) =>
              fout.result.free = <<[start |-> "08:00 AM", end |-> "09:00 AM"],
                                   [start |-> "10:00 AM", end |-> "06:00 PM"]>>

C9_Witness ==
    /\ fin.f = "check_free_slots"
    /\ fout # NoOutput
    /\ Len(fin.events) = 1
    /\ fin.events[1].start = IsoTime(540)
    /\ fin.events[1].end = IsoTime(600)
    /\ Len(fout.result.free) = 2
    /\ fout.result.busy[1].start = "09:00 AM"

-----------------------------------------------------------------------------
(* Properties of index_document *)

\* C10: a call with a title for which an earlier call has returned
\* "indexed" returns already_indexed with 0 chunks, whatever its content,
\* without having gone on to embed or to write, and the rows of the
\* persisted index and the persisted records are what they were when it
\* started
C10_IdempotentPerTitle ==
    /\ \A c \in Callers : rag.calls[c].pc # "idle" => ~rag.calls[c].known
    /\ rag.last.known =>
          /\ rag.last.result =
                [status |-> "already_indexed", title |-> rag.last.title, chunks |-> 0]
          /\ rag.last.unchanged

\* the second call for report.pdf, with another content, after notes.txt
\* was indexed in between
C10_Witness ==
    /\ rag.last.known
    /\ rag.last.result.status = "already_indexed"
    /\ rag.last.title = "report.pdf"
    /\ rag.indexed = Titles
    /\ disk.metadata.records[1].title = "report.pdf"
    /\ disk.metadata.records[1].chunk.of # rag.last.content.id
    /\ Len(disk.index.rows) > 2

\* no call of index_document is between its start and its return
NoCallInFlight == \A c \in Callers : rag.calls[c].pc = "idle"

\* record i of the persisted metadata describes the chunk whose vector is
\* row i of the persisted index
RowAligned ==
    /\ Len(disk.metadata.records) = Len(disk.index.rows)
    /\ \A i \in 1..Len(disk.metadata.records) :
          disk.metadata.records[i].chunk = disk.index.rows[i]

\* C11 as stated: whenever the calls of index_document, made one after the
\* other or at the same time, have all returned, the persisted metadata has
\* as many records as the persisted index has rows and record i describes
\* the chunk whose vector is row i
C11_MetadataAlignedWithIndex == NoCallInFlight => RowAligned

-----------------------------------------------------------------------------
(* Properties of MemoryManager.retrieve *)

\* C12: retrieve returns the empty list when nothing is stored, and with a
\* session filter s that is not empty every item it returns has
\* session_id = s and it returns at most top_k items
C12_RetrieveFiltersBySession ==
    fout.f = "retrieve" =>
        /\ Len(mem.data) = 0 => fout.results = <<>>
        /\ fout.session_filter # "None" =>
              /\ \A i \in 1..Len(fout.results) :
                    fout.results[i].session_id = fout.session_filter
              /\ Len(fout.results) <= fout.top_k

\* three items of two sessions are stored, one more than the index has
\* rows, and a retrieve for session s1 with top_k = 2 has returned the two
\* items of s1
C12_Witness ==
    /\ fout.f = "retrieve"
    /\ Len(mem.data) = 3
    /\ Len(mem.index.rows) = 2
    /\ \E i \in 1..3 : mem.data[i].session_id = "s2"
    /\ fout.session_filter = "s1"
    /\ fout.top_k = 2
    /\ Len(fout.results) = 2
    /\ fout.results[1] # fout.results[2]

-----------------------------------------------------------------------------
(* Properties of chunk_text *)

\* the number of window starts 0, 472, 944, ... below n
StartsBelow(n) == IF n = 0 THEN 0 ELSE ((n - 1) \div 472) + 1

\* C13: for a text of n cleaned words chunk_text returns one chunk per
\* window start 0, 472, 944, ... below n; chunk k (from 0) is the words from
\* position 472*k up to, not including, min(472*k + 512, n); so a chunk has
\* at most 512 words and fewer only when it reaches the end of the text
C13_ChunksAreWindows ==
    fout.f = "chunk_text" =>
        LET n == fin.content.n
            chunks == fout.chunks
        IN  /\ Len(chunks) = StartsBelow(n)
            /\ \A k \in 0..(Len(chunks) - 1) :
                  /\ chunks[k + 1].of = fin.content.id
                  /\ chunks[k + 1].lo = 472 * k
                  /\ chunks[k + 1].hi = (IF 472 * k + 512 < n THEN 472 * k + 512 ELSE n)
                  /\ chunks[k + 1].hi - chunks[k + 1].lo <= 512
                  /\ chunks[k + 1].hi - chunks[k + 1].lo < 512 => chunks[k + 1].hi = n

\* 1000 words: the chunks 0..512, 472..984 and 944..1000
C13_Witness ==
    /\ fout.f = "chunk_text"
    /\ fin.content.n = 1000
    /\ Len(fout.chunks) = 3
    /\ fout.chunks[2].lo = 472 /\ fout.chunks[2].hi = 984
    /\ fout.chunks[3].lo = 944 /\ fout.chunks[3].hi = 1000

-----------------------------------------------------------------------------
(* Properties of the tool-results map of a turn *)

\* C14: at every point of a turn the tool-results map has at most one entry
\* per tool name, and its entries are, for each tool called with success in
\* this turn, the result of the most recent such call: a repeated call
\* overwrites and a failed call changes nothing
C14_OneEntryPerTool ==
    \A t \in Turns :
        LET tr == tool_results[t]
        IN  /\ \A i, j \in 1..Len(tr) : tr[i].tool = tr[j].tool => i = j
            /\ {tr[i].tool : i \in 1..Len(tr)} = DOMAIN hist[t].latest
            /\ \A i \in 1..Len(tr) : tr[i].result = hist[t].latest[tr[i].tool]

\* search_emails, get_todays_events and search_emails again have returned
\* and a fourth call, of search_emails, has failed: the map holds the third
\* call's result for search_emails and the second's for get_todays_events
C14_Witness ==
    \E t \in Turns :
        /\ pc[t] = "closing"
        /\ hist[t].how = "act_fail"
        /\ hist[t].calls = 4
        /\ hist[t].plan = FcLine("search_emails", <<"|", "f", ":", "x">>)
        /\ Len(tool_results[t]) = 2
        /\ tool_results[t][1].tool = "search_emails"
        /\ tool_results[t][1].result.src = <<t, 3>>
        /\ tool_results[t][2].tool = "get_todays_events"
        /\ tool_results[t][2].result.src = <<t, 2>>

-----------------------------------------------------------------------------
(* Properties of turns that run at the same time *)

\* C15 as stated: however the turns interleave at their awaits, a turn runs
\* at most max_iterations decision cycles of its own, and a turn that stops
\* at the cap has run exactly that many: no other turn resets its budget or
\* uses it up
C15_OwnBudget ==
    \A t \in Turns :
        /\ hist[t].cycles <= max_iterations
        /\ (TurnEnded(t) /\ hist[t].how = "cap") => hist[t].cycles = max_iterations

\* the turn has failed with the UnboundLocalError of agent.py:308
FailedUnbound(t) ==
    /\ TurnEnded(t)
    /\ ret[t] = HandleChatExcept(Raise("UnboundLocalError",
                     <<"current_query referenced before assignment">>))

\* C16 as stated: however the turns interleave, the query a turn sends to
\* the model is its own user message followed by steps of that same turn
\* only, and no turn fails because another turn ran beside it
C16_OwnSteps ==
    \A t \in Turns :
        /\ current_query[t].bound =>
              /\ current_query[t].q = t
              /\ \A e \in current_query[t].steps : e.turn = t
        /\ ~FailedUnbound(t)

\* C17 as stated: a turn that has started returns a reply in the end, when
\* every connection, model call and tool call ends, also with other turns
\* starting and finishing beside it
C17_EveryTurnReturns ==
    \A t \in Turns : (pc[t] = "connect") ~> (pc[t] = "done")

-----------------------------------------------------------------------------
(* Properties of the cycles that end without a call *)

\* the plan of the turn's latest cycle starts with neither prefix
OtherPlan(t) ==
    /\ hist[t].plan # <<>>
    /\ ~StartsWith(hist[t].plan, FUNCTION_CALL_PREFIX)
    /\ ~StartsWith(hist[t].plan, FINAL_ANSWER_PREFIX)

\* C18 as stated: when the plan of a cycle starts with neither
\* FUNCTION_CALL: nor FINAL_ANSWER:, the turn has ended in that cycle, its
\* reply is the raw plan text and its context the one of the tool results
\* so far, and no model or tool call follows
C18_OtherPlanEndsTurn ==
    \A t \in Turns :
        OtherPlan(t) =>
            /\ TurnEnded(t)
            /\ ret[t] = Return(hist[t].plan, BuildContext(tool_results[t]))

\* the turn has left the loop because parsing or running a call failed; the
\* entry the handler of agent.py:430-436 added is the last of the log
ActFailed(t) ==
    /\ pc[t] = "closing"
    /\ hist[t].how = "act_fail"
    /\ iteration_response # <<>>
    /\ iteration_response[Len(iteration_response)].kind = "error"

\* the text holds every atom of the message
Carries(text, msg) == \A i \in 1..Len(msg) : \E j \in 1..Len(text) : text[j] = msg[i]

\* C19 as stated: when parsing or running a FUNCTION_CALL line fails, the
\* turn ends in that cycle with a reply that carries the message of the
\* failure and with the context built from the tool results of the earlier
\* cycles
C19_FailureReplyDescribes ==
    \A t \in Turns :
        ActFailed(t) =>
            /\ ~ret[t].raised
            /\ Carries(ret[t].reply, iteration_response[Len(iteration_response)].detail)
            /\ ret[t].context = BuildContext(tool_results[t])

\* the line generate_plan of decision.py:179 returns when its model call fails
FALLBACK_PLAN ==
    FaLine(<<" ", "[", "Sorry, I couldn't process your request. Please try again.", "]">>)

\* the turn has left the loop because its model call failed
ModelCallFailed(t) == TurnEnded(t) /\ hist[t].how = "llm_fail"

-----------------------------------------------------------------------------
(* Properties of the order and the number of the steps of a turn *)

\* agent.py:305-306: the turn waits for a model call that is not its first,
\* and the query of the call is again the user message, the query of the
\* first call
SameQueryAgain(t) ==
    /\ pc[t] = "llm"
    /\ hist[t].cycles >= 2
    /\ last_response = NoneResult
    /\ current_query[t] = [bound |-> TRUE, q |-> t, steps |-> {}]

\* C21 as stated: within a turn no step is attempted twice: after a failed
\* model call, a failed tool call or an unusable plan the turn issues no
\* model query it has issued before and no further tool call, and a cycle
\* makes at most one model call and one tool call
C21_NoStepTwice ==
    \A t \in Turns :
        /\ ~SameQueryAgain(t)
        /\ hist[t].calls <= hist[t].cycles
        /\ hist[t].how \in {"llm_fail", "act_fail"} => TurnEnded(t)

\* the failures that leave the steps of a turn: the Tool Server that cannot
\* be started or reached (agent.py:126-131) and the unbound local of
\* agent.py:308
EscapedFailures ==
    {Raise("McpError", <<"Connection closed">>),
     Raise("UnboundLocalError", <<"current_query referenced before assignment">>)}

\* the turn has ended in the handler of agent.py:452-456
EndedInHandler(t) == TurnEnded(t) /\ hist[t].how = "error"

\* C22: when a failure escapes the steps of a turn, handle_chat does not
\* raise: it returns the reply "Something went wrong: " followed by the
\* message of the failure, with an absent context, and the globals are reset
\* once the turn is done
C22_EscapedFailureIsReply ==
    \A t \in Turns :
        EndedInHandler(t) =>
            /\ \E err \in EscapedFailures :
                  ret[t] = Return(<<"Something went wrong: ">> \o err.msg, NoContext)
            /\ pc[t] = "done" =>
                  iteration = 0 /\ last_response = NoneResult /\ iteration_response = <<>>

\* the Tool Server could not be reached and the turn is done
C22_Witness ==
    \E t \in Turns :
        /\ EndedInHandler(t)
        /\ pc[t] = "done"
        /\ hist[t].cycles = 0
        /\ Mentions(ret[t].reply, "Connection closed")
        /\ ret[t].context = NoContext

-----------------------------------------------------------------------------
(* Properties of a failing MemoryManager.add *)

\* the call add(item) with the embedding outcome emb fails: the request
\* raises, or creating the index or appending the vector to it raises
AddFailed(emb) ==
    \/ emb.shape = "raise"
    \/ IndexAfterAdd(mem.index, emb).rows = mem.index.rows

\* C23 as stated: add never raises to its caller, and a call that fails at
\* any step (the embedding request, the creation of the index, the append
\* of the vector) leaves the record list, the vector list and the index as
\* they were before the call
C23_FailedAddLeavesMemory ==
    [][\A item \in MemItems : \A emb \in EmbedOutcomes(item) :
          (MemAdd(item, emb) /\ AddFailed(emb)) => mem' = mem]_vars

-----------------------------------------------------------------------------
(* Properties of the order of the stages of a turn *)

\* the memory holds an item of the type
Stored(type) == \E i \in 1..Len(mem.data) : mem.data[i].type = type

\* the turn has reached its first decision
Deciding(t) == hist[t].cycles >= 1

\* C24 as stated, in what it says of the memory: from the first decision of
\* a turn on the user message is stored as a user_query item, from the
\* first tool call that returned on a tool_output item is stored, and in
\* every cycle the decision precedes the tool call
C24_StagesInOrder ==
    \A t \in Turns :
        /\ Deciding(t) => Stored("user_query")
        /\ (Deciding(t) /\ Len(tool_results[t]) >= 1) => Stored("tool_output")
        /\ hist[t].calls <= hist[t].cycles

-----------------------------------------------------------------------------
(* decision.py: the plan line generate_plan returns, and the scan of        *)
(* handle_chat, each on its own over every response of at most MaxLines     *)
(* lines                                                                     *)

MaxLines == 3

\* a scan that looks for FUNCTION_CALL: lines only
RECURSIVE FirstPlanLineCallsOnly(_, _, _)
FirstPlanLineCallsOnly(lines, i, whole) ==
    IF i > Len(lines) THEN whole
    ELSE IF StartsWith(Strip(lines[i]), FUNCTION_CALL_PREFIX) THEN Strip(lines[i])
    ELSE FirstPlanLineCallsOnly(lines, i + 1, whole)

\* decision.py:170-175: the first line that starts with either prefix, else
\* the whole text
RECURSIVE FirstPlanLine(_, _, _)
FirstPlanLine(lines, i, whole) ==
    IF i > Len(lines) THEN whole
    ELSE IF \/ StartsWith(Strip(lines[i]), FUNCTION_CALL_PREFIX)
            \/ StartsWith(Strip(lines[i]), FINAL_ANSWER_PREFIX)
         THEN Strip(lines[i])
         ELSE FirstPlanLine(lines, i + 1, whole)

\* decision.py:166-175, from the text of the model's response
PlanOf(text) == FirstPlanLine(Split(Strip(text), "\n"), 1, Strip(Strip(text)))

\* the lines a response is made of
PlanLines ==
    { <<"FUNCTION_CALL", ":", " ", "get_todays_events">>,
      <<" ", "FUNCTION_CALL", ":", " ", "search_emails">>,
      <<"FINAL_ANSWER", ":", " ", "[", "Hello", "]">>,
      <<"I", " ", "will", " ", "check">>,
      <<>> }

RECURSIVE JoinLines(_)
JoinLines(lines) ==
    IF Len(lines) = 0 THEN <<>>
    ELSE IF Len(lines) = 1 THEN lines[1]
    ELSE lines[1] \o <<"\n">> \o JoinLines(Tail(lines))

PlanInputs ==
    {[f |-> "plan", text |-> JoinLines(ls)] :
        ls \in UNION {[1..k -> PlanLines] : k \in 1..MaxLines}}

PlanInit == fin \in PlanInputs /\ fout = NoOutput

\* decision.py:161-175: generate_plan, the model having answered fin.text
GeneratePlan ==
    /\ fin.f = "plan"
    /\ fout = NoOutput
    /\ fout' = [f |-> "generate_plan", plan |-> PlanOf(fin.text)]
    /\ UNCHANGED <<agentVars, http, fin, mem, disk, rag>>

\* agent.py:316-324: handle_chat, the model having answered fin.text
InlinePlan ==
    /\ fin.f = "plan"
    /\ fout = NoOutput
    /\ fout' = [f |-> "handle_chat", plan |-> ResponseText(fin.text)]
    /\ UNCHANGED <<agentVars, http, fin, mem, disk, rag>>

InitPlan == AgentInit /\ PlanInit /\ MemInit /\ RagInit

NextPlan == GeneratePlan \/ InlinePlan

SpecPlan == InitPlan /\ [][NextPlan]_vars

-----------------------------------------------------------------------------
(* Properties of the plan line *)

\* the trimmed lines of the trimmed response
LinesOf(text) == MapStrip(Split(Strip(text), "\n"))

IsCallLine(line) == StartsWith(line, FUNCTION_CALL_PREFIX)

IsPlanLine(line) == IsCallLine(line) \/ StartsWith(line, FINAL_ANSWER_PREFIX)

\* plan is the first of the lines that starts with either prefix, or the
\* whole trimmed text when there is none
FirstOfEither(text, plan) ==
    LET lines == LinesOf(text)
    IN  IF \E i \in 1..Len(lines) : IsPlanLine(lines[i])
        THEN \E i \in 1..Len(lines) :
                /\ IsPlanLine(lines[i])
                /\ \A j \in 1..(i - 1) : ~IsPlanLine(lines[j])
                /\ plan = lines[i]
        ELSE plan = Strip(text)

\* plan is the first of the lines that starts with FUNCTION_CALL:, or the
\* whole trimmed text when there is none
FirstCall(text, plan) ==
    LET lines == LinesOf(text)
    IN  IF \E i \in 1..Len(lines) : IsCallLine(lines[i])
        THEN \E i \in 1..Len(lines) :
                /\ IsCallLine(lines[i])
                /\ \A j \in 1..(i - 1) : ~IsCallLine(lines[j])
                /\ plan = lines[i]
        ELSE plan = Strip(text)

\* C25 as stated: the plan line chosen from a response, by generate_plan and
\* by handle_chat, is the first trimmed line that starts with FUNCTION_CALL:
\* or FINAL_ANSWER:, whichever comes first, and the whole response when no
\* line has either prefix
C25_FirstLineOfEitherPrefix ==
    fout # NoOutput => FirstOfEither(fin.text, fout.plan)

\* C25, amended: generate_plan chooses the first trimmed line that starts
\* with either prefix, else the whole trimmed response; handle_chat chooses
\* the first trimmed line that starts with FUNCTION_CALL:, else the whole
\* trimmed response
C25_PlanLinePerScan ==
    /\ (fout # NoOutput /\ fout.f = "generate_plan") => FirstOfEither(fin.text, fout.plan)
    /\ (fout # NoOutput /\ fout.f = "handle_chat") => FirstCall(fin.text, fout.plan)

\* generate_plan has chosen the FINAL_ANSWER line that follows a line of
\* prose and precedes a FUNCTION_CALL line
C25_Witness ==
    /\ fout # NoOutput
    /\ fout.f = "generate_plan"
    /\ fin.text = <<"I", " ", "will", " ", "check", "\n",
                    "FINAL_ANSWER", ":", " ", "[", "Hello", "]", "\n",
                    " ", "FUNCTION_CALL", ":", " ", "search_emails">>
    /\ fout.plan = <<"FINAL_ANSWER", ":", " ", "[", "Hello", "]">>

-----------------------------------------------------------------------------
(* Properties of a line with fewer values than parameters *)

\* the line names a tool of the catalogue and carries fewer values than the
\* tool has parameters, each value being of the type of its parameter, and
\* a parser has run
FewerValuesParsed ==
    /\ fin.f = "parse"
    /\ fout # NoOutput
    /\ NamedTool # 0
    /\ Len(fin.values) < Len(ParseCatalogue[NamedTool].params)
    /\ \A i \in 1..Len(fin.values) :
          Converted(ParseCatalogue[NamedTool].params[i].type, fin.values[i]) # {}

\* the call is sent with the values bound to the first parameters and the
\* other parameters left out
BoundToFirst ==
    LET params == ParseCatalogue[NamedTool].params
    IN  /\ fout.st # "raised"
        /\ fout.call.tool_name = fin.name
        /\ DOMAIN fout.call.arguments = {params[i].name : i \in 1..Len(fin.values)}
        /\ \A i \in 1..Len(fin.values) :
              fout.call.arguments[params[i].name] \in Converted(params[i].type, fin.values[i])

\* C26 as stated: a line with fewer values than the tool has parameters
\* does not fail in either parser: the values are bound to the first
\* parameters, the remaining parameters (none of them an array or an
\* object) are left out, and the call is sent
C26_FewerValuesStillCalls ==
    FewerValuesParsed => BoundToFirst

\* C26, amended: parse_function_call (execute_tool) binds the values to the
\* first parameters, leaves the others out and the call is sent; handle_chat
\* fails with "Not enough parameters provided for <tool>" and sends no call
C26_FewerValuesPerParser ==
    FewerValuesParsed =>
        /\ fout.f = "execute_tool" => BoundToFirst
        /\ fout.f = "handle_chat" =>
              /\ fout.st = "raised"
              /\ fout.err = Raise("ValueError",
                                  <<"Not enough parameters provided for ", fin.name>>)

\* FUNCTION_CALL: send_email|f:x|f:x has gone through execute_tool: the call
\* is sent without a body
C26_Witness ==
    /\ FewerValuesParsed
    /\ fout.f = "execute_tool"
    /\ fout.st = "awaiting"
    /\ fin.name = "send_email"
    /\ Len(fin.values) = 2
    /\ DOMAIN fout.call.arguments = {"to", "subject"}

-----------------------------------------------------------------------------
(* The two parsers on a tool with an array parameter, after every map of    *)
(* at most MaxResults earlier tool results                                   *)

MaxResults == 2

\* a tool whose second parameter is an array
InjectCatalogue ==
    << [name |-> "forward_emails",
        params |-> <<StrParam("to"), [name |-> "emails", type |-> "array"]>>] >>

\* what an earlier call may have left in tool_results: a map that holds the
\* key emails, a map that does not, a text that is not JSON, an empty list
EarlierResults ==
    { DictResult(Map1("emails", <<"m1">>), <<0, 1>>),
      DictResult(Map1("emails", <<"m2">>), <<0, 2>>),
      DictResult(Map1("events", <<"e1">>), <<0, 3>>),
      TextResult(<<0, 4>>),
      EmptyResult(<<0, 5>>) }

\* tool_results after k calls of tools of different names, in capture order
ResultMaps ==
    UNION {{[i \in 1..k |-> [tool |-> ServerCatalogue[i].name, result |-> rs[i]]] :
                rs \in [1..k -> EarlierResults]} : k \in 0..MaxResults}

\* the line gives the first parameter alone, or both parameters
InjectInputs ==
    {[f |-> "inject", values |-> v, tr |-> tr,
      line |-> FcLine("forward_emails", JoinValues(v))] :
        v \in { << <<"f", ":", "x">> >>, << <<"f", ":", "x">>, <<"[", "a", "]">> >> },
        tr \in ResultMaps}

InjectInit == fin \in InjectInputs /\ fout = NoOutput

\* action.py:95-105: execute_tool up to "await session.call_tool", with the
\* results of the turn so far
ExecuteToolAfterResults ==
    /\ fin.f = "inject"
    /\ fout = NoOutput
    /\ fout' = AfterParse("execute_tool",
                          parse_function_call(fin.line, InjectCatalogue, fin.tr))
    /\ UNCHANGED <<agentVars, http, fin, mem, disk, rag>>

\* agent.py:331-397: handle_chat up to "await session.call_tool", with the
\* results of the turn so far
InlineParseAfterResults ==
    /\ fin.f = "inject"
    /\ fout = NoOutput
    /\ fout' = AfterParse("handle_chat", AgentParse(fin.line, InjectCatalogue, fin.tr))
    /\ UNCHANGED <<agentVars, http, fin, mem, disk, rag>>

InitInject == AgentInit /\ InjectInit /\ MemInit /\ RagInit

NextInject == ExecuteToolAfterResults \/ InlineParseAfterResults

SpecInject == InitInject /\ [][NextInject]_vars

-----------------------------------------------------------------------------
(* Properties of the filling of an array parameter *)

\* the earlier result decodes as a map that holds the key
Qualifies(res, key) == res.kind = "dict" /\ key \in DOMAIN res.body

\* the places of the earlier results that qualify for the parameter emails
QualifyingPlaces == {i \in 1..Len(fin.tr) : Qualifies(fin.tr[i].result, "emails")}

\* the line has left the array parameter without a value and a parser has run
ArrayLeftOpen == fin.f = "inject" /\ fout # NoOutput /\ Len(fin.values) = 1

\* C27 as stated: an array parameter without a value is filled from the
\* first earlier result, in capture order, that decodes as a map holding a
\* key of the parameter's name; when none qualifies, also when an earlier
\* result is not decodable or is an empty list, the parameter is left unset;
\* in both cases parsing completes without an error
C27_FilledFromFirstQualifying ==
    ArrayLeftOpen =>
        /\ fout.st # "raised"
        /\ IF QualifyingPlaces # {}
           THEN LET first == CHOOSE i \in QualifyingPlaces :
                                \A j \in QualifyingPlaces : i <= j
                IN  /\ "emails" \in DOMAIN fout.call.arguments
                    /\ fout.call.arguments["emails"]
                          = InjectedArg("emails", fin.tr[first].result)
           ELSE "emails" \notin DOMAIN fout.call.arguments

-----------------------------------------------------------------------------
(* Properties of check_free_slots on any list of events *)

\* the times of the working window an interval can start or end at
WindowTimes == {m \in EventTimes : day_start <= m /\ m <= day_end}

\* the interval reads as the times from s to e of the window
Reads(slot, s, e) == slot.start = strftime(s) /\ slot.end = strftime(e)

\* the intervals of the list as pairs of minutes; an interval that does not
\* read as two times of the window in order has no pair
Spans(slots) ==
    [i \in 1..Len(slots) |->
        {<<s, e>> \in WindowTimes \X WindowTimes : s < e /\ Reads(slots[i], s, e)}]

WellFormed(slots) == \A i \in 1..Len(slots) : Cardinality(Spans(slots)[i]) = 1

SpanOf(slots, i) == CHOOSE p \in Spans(slots)[i] : TRUE

\* C28: for every list of events of the day check_free_slots returns busy
\* intervals that lie inside 08:00-18:00 with start < end, sorted by start,
\* and free intervals with start < end, sorted and pairwise disjoint, that
\* overlap no busy interval and together with the busy ones cover the window
C28_BusyAndFreePartitionTheDay ==
    (fout # NoOutput /\ fout.f = "check_free_slots") =>
        LET busy == fout.result.busy
            free == fout.result.free
        IN  /\ WellFormed(busy)
            /\ WellFormed(free)
            /\ \A i, j \in 1..Len(busy) :
                  i < j => SpanOf(busy, i)[1] <= SpanOf(busy, j)[1]
            /\ \A i, j \in 1..Len(free) :
                  i < j => SpanOf(free, i)[2] <= SpanOf(free, j)[1]
            /\ \A i \in 1..Len(free) : \A j \in 1..Len(busy) :
                  \/ SpanOf(free, i)[2] <= SpanOf(busy, j)[1]
                  \/ SpanOf(busy, j)[2] <= SpanOf(free, i)[1]
            /\ \A m \in WindowTimes \ {day_end} :
                  \/ \E i \in 1..Len(busy) :
                        SpanOf(busy, i)[1] <= m /\ m < SpanOf(busy, i)[2]
                  \/ \E i \in 1..Len(free) :
                        SpanOf(free, i)[1] <= m /\ m < SpanOf(free, i)[2]

\* two events given latest first, the second holding the first and starting
\* before the window: two busy intervals that overlap, one free interval
C28_Witness ==
    /\ fout # NoOutput
    /\ fout.f = "check_free_slots"
    /\ Len(fin.events) = 2
    /\ fin.events[1].start = IsoTime(540) /\ fin.events[1].end = IsoTime(600)
    /\ fin.events[2].start = IsoTime(0) /\ fin.events[2].end = IsoTime(750)
    /\ Len(fout.result.busy) = 2
    /\ Reads(fout.result.busy[1], 480, 750)
    /\ Reads(fout.result.busy[2], 540, 600)
    /\ Len(fout.result.free) = 1
    /\ Reads(fout.result.free[1], 750, 1080)

-----------------------------------------------------------------------------
(* gmail_client.py: _extract_body_text.  A payload is a tree of parts: each  *)
(* part has a mimeType, a body whose data is base64url text ("" for none)    *)
(* and a list of parts.                                                      *)

MaxParts == 2

\* base64.urlsafe_b64decode(data).decode("utf-8", errors="replace")
B64Decode(data) ==
    CASE data = "cGxhaW4gb25l" -> "plain one"
      [] data = "cGxhaW4gdHdv" -> "plain two"
      [] data = "PHA-aHRtbDwvcD4=" -> "<p>html</p>"
      [] data = "bG9uZyByZXBvcnQ" -> "long report"
      [] OTHER -> ""

Part(mimeType, data, parts) == [mimeType |-> mimeType, data |-> data, parts |-> parts]

RECURSIVE extract_body_text(_)
RECURSIVE ExtractFromParts(_, _)

\* gmail_client.py:220-223: the loop over payload.get("parts", [])
ExtractFromParts(parts, i) ==
    IF i > Len(parts) THEN ""
    ELSE LET text == extract_body_text(parts[i])
         IN  IF text # "" THEN text ELSE ExtractFromParts(parts, i + 1)

\* gmail_client.py:210-229
extract_body_text(payload) ==
    IF payload.mimeType = "text/plain" /\ payload.data # ""
    THEN B64Decode(payload.data)
    ELSE LET text == ExtractFromParts(payload.parts, 1)
         IN  IF text # "" THEN text
             ELSE IF payload.data # "" THEN B64Decode(payload.data)
             ELSE ""

\* parts without parts: plain text with or without data, HTML with or
\* without data
LeafParts ==
    {Part("text/plain", d, <<>>) : d \in {"", "cGxhaW4gb25l", "cGxhaW4gdHdv"}}
    \cup {Part("text/html", d, <<>>) : d \in {"", "PHA-aHRtbDwvcD4="}}

\* a multipart of at most MaxParts of the parts
Multiparts(of) ==
    {Part("multipart/alternative", "", ps) : ps \in UNION {[1..k -> of] : k \in 1..MaxParts}}

\* the payloads: trees of depth at most 3
Payloads == LeafParts \cup Multiparts(LeafParts) \cup Multiparts(LeafParts \cup Multiparts(LeafParts))

BodyInit == fin \in {[f |-> "extract_body_text", payload |-> p] : p \in Payloads} /\ fout = NoOutput

CallExtractBodyText ==
    /\ fin.f = "extract_body_text"
    /\ fout = NoOutput
    /\ fout' = [f |-> "extract_body_text", text |-> extract_body_text(fin.payload)]
    /\ UNCHANGED <<agentVars, http, fin, mem, disk, rag>>

InitBody == AgentInit /\ BodyInit /\ MemInit /\ RagInit

NextBody == CallExtractBodyText

SpecBody == InitBody /\ [][NextBody]_vars

-----------------------------------------------------------------------------
(* Properties of _extract_body_text *)

\* the parts of the tree, the payload itself first, in the order a walk
\* from the top meets them
RECURSIVE PartsInOrder(_)
RECURSIVE PartsOfList(_, _)
PartsOfList(parts, i) ==
    IF i > Len(parts) THEN <<>>
    ELSE PartsInOrder(parts[i]) \o PartsOfList(parts, i + 1)

PartsInOrder(payload) == <<payload>> \o PartsOfList(payload.parts, 1)

IsPlainWithData(part) == part.mimeType = "text/plain" /\ part.data # ""

\* C29 as stated: the text is the decoded data of the first plain-text part
\* with data of the tree whenever there is one, also when a part of another
\* type with data comes before it; when there is none it is the decoded
\* data of some part that has data, and the empty string when no part has
\* data
C29_FirstPlainTextPart ==
    (fout # NoOutput /\ fout.f = "extract_body_text") =>
        LET all == PartsInOrder(fin.payload)
            plain == {i \in 1..Len(all) : IsPlainWithData(all[i])}
            withData == {i \in 1..Len(all) : all[i].data # ""}
        IN  IF plain # {}
            THEN fout.text = B64Decode(all[CHOOSE i \in plain : \A j \in plain : i <= j].data)
            ELSE IF withData # {}
            THEN \E i \in withData : fout.text = B64Decode(all[i].data)
            ELSE fout.text = ""

-----------------------------------------------------------------------------
(* gmail_client.py: get_email_thread.  A message of the provider has its    *)
(* headers (a map from the names it has), a payload and a snippet.           *)

MaxMessages == 3

\* len(body) of the texts a body decodes to, "long report" standing for a
\* text of 2001 characters
CharCount(text) ==
    CASE text = "" -> 0
      [] text = "plain one" -> 9
      [] text = "plain two" -> 9
      [] text = "<p>html</p>" -> 11
      [] text = "long report" -> 2001

\* gmail_client.py:270-273 and 279: the body of a message, cut at 2000
\* characters, and the snippet when the body is blank
BodyOf(msg) ==
    LET text == extract_body_text(msg.payload)
    IN  IF CharCount(text) > 2000 THEN <<"first 2000 of", text, "\n... [trimmed]">>
        ELSE IF text # "" THEN <<text>>
        ELSE <<msg.snippet>>

\* dict.get(key, default)
HeaderOr(headers, name, default) ==
    IF name \in DOMAIN headers THEN headers[name] ELSE default

\* gmail_client.py:258-268: the subject after the loop over raw_messages
RECURSIVE SubjectOf(_, _, _)
SubjectOf(raw_messages, i, subject) ==
    IF i > Len(raw_messages) THEN subject
    ELSE SubjectOf(raw_messages, i + 1,
                   IF subject = ""
                   THEN HeaderOr(raw_messages[i].headers, "Subject", "(no subject)")
                   ELSE subject)

\* gmail_client.py:232-287, thread being what the provider returned
get_email_thread(thread_id, raw_messages) ==
    [thread_id |-> thread_id,
     subject |-> SubjectOf(raw_messages, 1, ""),
     message_count |-> Len(raw_messages),
     messages |-> [i \in 1..Len(raw_messages) |->
                     [from |-> HeaderOr(raw_messages[i].headers, "From", "Unknown"),
                      to |-> HeaderOr(raw_messages[i].headers, "To", ""),
                      date |-> HeaderOr(raw_messages[i].headers, "Date", ""),
                      body |-> BodyOf(raw_messages[i])]]]

\* the header maps of the messages: with and without a Subject, one Subject
\* being the empty text
HeaderMaps ==
    { [n \in {"From"} |-> "a@x.org"],
      [n \in {"From", "Subject"} |-> IF n = "From" THEN "a@x.org" ELSE ""],
      [n \in {"From", "Subject"} |-> IF n = "From" THEN "b@x.org" ELSE "Re: plan"],
      [n \in {"Subject", "Date"} |-> IF n = "Date" THEN "Mon" ELSE "Budget"] }

ThreadMessages ==
    {[headers |-> h, payload |-> Part("text/plain", d, <<>>), snippet |-> "snip"] :
        h \in HeaderMaps, d \in {"", "cGxhaW4gb25l"}}
    \cup {[headers |-> [n \in {"To"} |-> "c@x.org"],
           payload |-> Part("text/plain", "bG9uZyByZXBvcnQ", <<>>), snippet |-> "snip"]}

ThreadInit ==
    /\ fin \in {[f |-> "get_email_thread", thread_id |-> "t1", messages |-> ms] :
                   ms \in UNION {[1..k -> ThreadMessages] : k \in 0..MaxMessages}}
    /\ fout = NoOutput

\* gmail_client.py:248-287: the provider answered with the thread
CallGetEmailThread ==
    /\ fin.f = "get_email_thread"
    /\ fout = NoOutput
    /\ fout' = [f |-> "get_email_thread", raised |-> FALSE,
                result |-> get_email_thread(fin.thread_id, fin.messages)]
    /\ UNCHANGED <<agentVars, http, fin, mem, disk, rag>>

\* gmail_client.py:248-253: get_gmail_service or the provider call raised
GetEmailThreadRaises ==
    /\ fin.f = "get_email_thread"
    /\ fout = NoOutput
    /\ fout' = [f |-> "get_email_thread", raised |-> TRUE, err |-> ProviderDown]
    /\ UNCHANGED <<agentVars, http, fin, mem, disk, rag>>

InitThread == AgentInit /\ ThreadInit /\ MemInit /\ RagInit

NextThread == CallGetEmailThread \/ GetEmailThreadRaises

SpecThread == InitThread /\ [][NextThread]_vars

-----------------------------------------------------------------------------
(* Properties of get_email_thread *)

\* the thread has been returned
ThreadReturned == fout # NoOutput /\ fout.f = "get_email_thread" /\ ~fout.raised

\* the places of the messages that have a Subject header
WithSubject == {i \in 1..Len(fin.messages) : "Subject" \in DOMAIN fin.messages[i].headers}

\* C30 as stated: the subject of the thread is the Subject header of the
\* first message that has one, also when earlier messages have none, and
\* message_count is the number of the messages returned, which are in the
\* provider's order
C30_SubjectOfFirstMessageWithOne ==
    ThreadReturned =>
        /\ WithSubject # {} =>
              fout.result.subject
                  = fin.messages[CHOOSE i \in WithSubject : \A j \in WithSubject : i <= j]
                       .headers["Subject"]
        /\ fout.result.message_count = Len(fout.result.messages)
        /\ Len(fout.result.messages) = Len(fin.messages)
        /\ \A i \in 1..Len(fin.messages) :
              fout.result.messages[i].from
                  = HeaderOr(fin.messages[i].headers, "From", "Unknown")

=============================================================================
